---- MODULE Spec2Model ----
(***************************************************************************)
(* A model of efrotools/sync.py: the marker codec (add_marker,             *)
(* get_dst_file_info, string_hash), sync_paths and the filesystem it acts  *)
(* on; of ba/_servermode.py: the ServerController; and of                  *)
(* efro/dataclassutils.py: dataclass_assign.                               *)
(*                                                                         *)
(* Text is a sequence of tokens.  A token is a string standing for one     *)
(* character or for one indivisible chunk of characters:                   *)
(*   NL   the newline character                                            *)
(*   FF   a form feed, one of the other line boundaries of str.splitlines  *)
(*   KEY  the text EFRO_SYNC_HASH        EQ  the character =               *)
(*   "h(..)" the decimal digest string_hash returns for a given text       *)
(* File names are sequences of chunks as well (<<"a", ".py">> is a.py), a  *)
(* path is a sequence of names relative to the root of its tree.           *)
(***************************************************************************)
EXTENDS Integers, Sequences, FiniteSets, TLC

VARIABLES
    srcDirs,    \* directories of the source tree (paths; <<>> is the root)
    srcFiles,   \* source files: path -> text, or NoFile
    dstDirs,    \* directories of the destination tree
    dstFiles,   \* destination files: path -> text, or NoFile
    pc,         \* position of sync_paths: idle, walk, final, returned, raised
                \* (of check_path: check, check_returned, check_raised)
    mode,       \* argument mode of the running call
    proj,       \* argument src_proj of the running call
    target,     \* arguments src and dst of the running call: the path,
                \* relative to the two trees, of what is synced
    allpaths,   \* local allpaths: the pairs in walk order (relative paths)
    idx,        \* index in allpaths of the next pair of the for loop
    changed,    \* local changed_error_dst_files
    err,        \* the exception that ended the call, "none" when none
    result,     \* the value returned, -1 when none
    writes,     \* filesystem modifications made by the running call
    acted,      \* what the running call did for each pair it examined
    prev,       \* the previous call, while neither tree has changed since
    repeat,     \* the running call repeats prev with the trees unchanged
    runs,       \* number of calls started
    edits,      \* number of edits made by the user between calls
    pruned,     \* what the pruning loop of the running call listed, removed
    reads,      \* the files the running call has read
    start,      \* the two trees as they were when the running call started
    last,       \* what a call in LIST mode found on the same trees and the
                \* same paths, right before the running call in FULL mode
    cpc,        \* codec runs: position (off, in, enc, dec, raw)
    cproj,      \* codec runs: project id
    cdata,      \* codec runs: content
    cenc,       \* codec runs: result of add_marker
    cdec,       \* codec runs: result of get_dst_file_info
    \* ServerController and the app around it
    spc,        \* the app: off (no server mode), running, exited
    playlist_code,                  \* _config.playlist_code is not None
    session_type,                   \* _config.session_type
    prep_timer,                     \* _prep_timer is not None
    next_stuck_login_warn_time,     \* _next_stuck_login_warn_time
    shutdown_reason,                \* _shutdown_reason
    executing_shutdown,             \* _executing_shutdown
    playlist_fetch_running,         \* _playlist_fetch_running
    playlist_fetch_sent_request,    \* _playlist_fetch_sent_request
    playlist_fetch_got_response,    \* _playlist_fetch_got_response
    ran_access_check,               \* _ran_access_check
    playlist_name,                  \* _playlist_name
    account_state,  \* what _ba.get_account_state() returns
    now,            \* what time.time() returns
    inflight,       \* transactions and requests that await their response
    pushed,         \* calls of _launch_server_session pushed, not yet run
    effects,        \* all that the controller did to the app, in order
    scall,          \* the last call made on the controller
    \* dataclass_assign
    dpc,        \* position: off, loop, returned, raised
    dfields,    \* the fields of the dataclass: name -> declared type
    dinst,      \* the instance: field name -> value
    dinst0,     \* the instance as it was passed
    dvalues,    \* the items of values, in iteration order
    didx,       \* the item the loop is at
    derr,       \* the exception raised
    dkind       \* what was passed: ok, not_dataclass, not_dict

fsvars == <<srcDirs, srcFiles, dstDirs, dstFiles>>
runvars == <<pc, mode, proj, target, allpaths, idx, changed, err, result>>
histvars ==
    <<writes, acted, prev, repeat, runs, edits, pruned, reads, start, last>>
codecvars == <<cpc, cproj, cdata, cenc, cdec>>
servervars ==
    <<spc, playlist_code, session_type, prep_timer,
      next_stuck_login_warn_time, shutdown_reason, executing_shutdown,
      playlist_fetch_running, playlist_fetch_sent_request,
      playlist_fetch_got_response, ran_access_check, playlist_name,
      account_state, now,
      inflight, pushed, effects, scall>>
dcvars == <<dpc, dfields, dinst, dinst0, dvalues, didx, derr, dkind>>
sidevars == <<servervars, dcvars>>
syncvars == <<fsvars, runvars, histvars, codecvars>>
vars == <<syncvars, sidevars>>

-----------------------------------------------------------------------------
(* Bounds *)

MaxRuns == 2        \* calls of sync_paths in one behaviour
MaxEdits == 1       \* edits by the user in one behaviour
MaxLen == 4         \* length of the content of a codec run
MaxTime == 3        \* the clock of the app stops here
MaxItems == 3       \* items of the dict passed to dataclass_assign

-----------------------------------------------------------------------------
(* Text *)

NL == "NL"
FF == "FF"
KEY == "KEY"
EQ == "EQ"

\* The line boundaries of str.splitlines that occur in the model's texts.
LineBreaks == {NL, FF}

\* Index of the first line boundary of s, 0 when there is none.
FirstBreak(s) ==
    IF \E i \in 1..Len(s) : s[i] \in LineBreaks
    THEN CHOOSE i \in 1..Len(s) :
            /\ s[i] \in LineBreaks
            /\ \A j \in 1..(i - 1) : s[j] \notin LineBreaks
    ELSE 0

\* str.splitlines(): the lines of s without their boundaries; a final
\* boundary opens no further line.
RECURSIVE splitlines(_)
splitlines(s) ==
    IF s = <<>> THEN <<>>
    ELSE LET i == FirstBreak(s) IN
         IF i = 0 THEN <<s>>
         ELSE <<SubSeq(s, 1, i - 1)>> \o splitlines(SubSeq(s, i + 1, Len(s)))

\* '\n'.join(lines)
RECURSIVE join(_)
join(lines) ==
    IF lines = <<>> THEN <<>>
    ELSE IF Len(lines) = 1 THEN lines[1]
    ELSE lines[1] \o <<NL>> \o join(Tail(lines))

\* Index of the first occurrence of the two tokens KEY EQ in line, 0 if none.
FirstKeyEq(line) ==
    IF \E i \in 1..(Len(line) - 1) : line[i] = KEY /\ line[i + 1] = EQ
    THEN CHOOSE i \in 1..(Len(line) - 1) :
            /\ line[i] = KEY /\ line[i + 1] = EQ
            /\ \A j \in 1..(i - 1) : ~(line[j] = KEY /\ line[j + 1] = EQ)
    ELSE 0

\* 'EFRO_SYNC_HASH=' in line
HasKeyEq(line) == FirstKeyEq(line) # 0

\* 'EFRO_SYNC_HASH' in line
HasKey(line) == \E i \in 1..Len(line) : line[i] = KEY

\* line.split('EFRO_SYNC_HASH=')[1], for a line that holds the separator:
\* the text between its first and its second occurrence (or the end).
SplitKeyEq1(line) ==
    LET i == FirstKeyEq(line)
        rest == SubSeq(line, i + 2, Len(line))
        j == FirstKeyEq(rest)
    IN  IF j = 0 THEN rest ELSE SubSeq(rest, 1, j - 1)

RECURSIVE Digits(_)
Digits(s) == IF s = <<>> THEN "" ELSE Head(s) \o "," \o Digits(Tail(s))

\* string_hash: the digest of data as a decimal string, here one token that
\* spells data out (the digest is taken to be free of collisions).
string_hash(data) == <<"h(" \o Digits(data) \o ")">>

\* The f-string of add_marker: two and a half header lines in one string.
MarkerHeader(src_proj, hashstr) ==
    <<"# Synced from ">> \o src_proj \o <<".", NL, "# ", KEY, EQ>>
        \o hashstr \o <<NL, "#">>

Ok(v) == [err |-> "none", val |-> v]
Raise(e) == [err |-> e, val |-> <<>>]

\* A variant of add_marker that refuses a marker on the first line as well.
add_marker_FirstTwoLines(src_proj, srcdata) ==
    LET lines == splitlines(srcdata) IN
    IF \/ Len(lines) > 0 /\ HasKeyEq(lines[1])
       \/ Len(lines) > 1 /\ HasKeyEq(lines[2])
    THEN Raise("RuntimeError")
    ELSE Ok(join(<<MarkerHeader(src_proj, string_hash(srcdata))>> \o lines)
            \o <<NL>>)

\* add_marker(src_proj, srcdata)
add_marker(src_proj, srcdata) ==
    LET lines == splitlines(srcdata) IN
    IF Len(lines) > 1 /\ HasKeyEq(lines[2])
    THEN Raise("RuntimeError")
    ELSE Ok(join(<<MarkerHeader(src_proj, string_hash(srcdata))>> \o lines)
            \o <<NL>>)

NoInfo == [err |-> "none", marker_hash |-> <<>>, dst_hash |-> <<>>,
           dstdata |-> <<>>]

\* get_dst_file_info applied to a file that holds the text dstdata.
get_dst_file_info(dstdata) ==
    LET dstlines == splitlines(dstdata) IN
    IF dstlines = <<>> THEN [NoInfo EXCEPT !.err = "ValueError"]
    ELSE IF Len(dstlines) < 2 THEN [NoInfo EXCEPT !.err = "IndexError"]
    ELSE IF ~HasKey(dstlines[2]) THEN [NoInfo EXCEPT !.err = "ValueError"]
    ELSE IF ~HasKeyEq(dstlines[2]) THEN [NoInfo EXCEPT !.err = "IndexError"]
    ELSE LET body == join(SubSeq(dstlines, 4, Len(dstlines))) \o <<NL>> IN
         [err |-> "none",
          marker_hash |-> SplitKeyEq1(dstlines[2]),
          dst_hash |-> string_hash(body),
          dstdata |-> body]

-----------------------------------------------------------------------------
(* Names, paths and the two trees *)

NoFile == <<"NOFILE">>

\* The file names and directory names of the model, as chunks.
N_a_py == <<"a", ".py">>
N_b_py == <<"b", ".py">>
N_d == <<"d">>
N_h_py == <<".", "h", ".py">>
N_c_py == <<"c", ".py">>
N_pycache == <<"__pycache__">>
N_notes_txt == <<"notes", ".txt">>

\* Relative paths: a.py and d/b.py, the root directory and d.
P_a == <<N_a_py>>
P_b == <<N_d, N_b_py>>
D_root == <<>>
D_d == <<N_d>>

\* A hidden file and a file of a cache directory: d/.h.py and
\* d/__pycache__/c.py.
P_h == <<N_d, N_h_py>>
P_c == <<N_d, N_pycache, N_c_py>>
D_dc == <<N_d, N_pycache>>

\* A file _valid_filename turns down: notes.txt.
P_n == <<N_notes_txt>>

FilePaths == {P_a, P_b, P_h, P_c, P_n}
DirPaths == {D_root, D_d, D_dc}

\* The two plain files and their directories.
CorePaths == {P_a, P_b}
CoreDirs == {D_root, D_d}

Parent(p) == SubSeq(p, 1, Len(p) - 1)
Basename(p) == p[Len(p)]

IsPrefix(d, p) == Len(d) <= Len(p) /\ SubSeq(p, 1, Len(d)) = d
IsProperPrefix(d, p) == Len(d) < Len(p) /\ IsPrefix(d, p)

\* The directories above p, the root included.
Ancestors(p) == {d \in DirPaths : IsProperPrefix(d, p)}

AllowedNames ==
    {<<"requirements.txt">>, <<"pylintrc">>, <<"clang-format">>,
     <<"pycheckers">>, <<"style.yapf">>, <<"test_task_bin">>,
     <<".", "editorconfig">>}

HasChunk(name, c) == \E i \in 1..Len(name) : name[i] = c

\* _valid_filename(fname), for a simple file name (a name of the walk
\* never holds a path separator, so the ValueError is not raised).
valid_filename(fname) ==
    IF fname \in AllowedNames THEN TRUE
    ELSE /\ fname # <<>>
         /\ fname[Len(fname)] \in {".py", ".pyi"}
         /\ ~HasChunk(fname, "flycheck_")

SrcIsFile(p) == srcFiles[p] # NoFile
DstIsFile(p) == dstFiles[p] # NoFile

\* A variant of SrcExists that sees only the files sync_paths takes up.
SrcExists_EligibleOnly(p) ==
    p \in srcDirs
        \/ (p \in FilePaths /\ srcFiles[p] # NoFile
                /\ valid_filename(Basename(p)))

\* os.path.exists(Path(src, relpath))
SrcExists(p) == p \in srcDirs \/ (p \in FilePaths /\ SrcIsFile(p))

\* A tree is well formed when every entry lies in an existing directory.
TreeOk(dirs, files) ==
    /\ \A d \in dirs : Ancestors(d) \subseteq dirs
    /\ \A p \in FilePaths : files[p] # NoFile => Parent(p) \in dirs

-----------------------------------------------------------------------------
(* sync_paths *)

Modes == {"PULL", "FULL", "LIST", "FORCE", "CHECK"}
Projects == {<<"efro">>}

NotExamined ==
    [act |-> "none", existed |-> FALSE, decoded |-> FALSE,
     src_hash |-> <<>>, marker_hash |-> <<>>, dst_hash |-> <<>>]

NoPrev == [mode |-> "none", proj |-> <<>>, ok |-> FALSE]

NoPrune == [listed |-> {}, removed |-> {}]

\* No call in LIST mode came right before on the same trees.
NoLast ==
    [listed |-> FALSE, allpaths |-> <<>>, err |-> "none",
     acted |-> [p \in FilePaths |-> NotExamined]]

Rd(tree, p) == [tree |-> tree, path |-> p]

\* Two trees as one value.
Trees(sd, sf, dd, df) ==
    [srcDirs |-> sd, srcFiles |-> sf, dstDirs |-> dd, dstFiles |-> df]

Wr(op, tree, p) == [op |-> op, tree |-> tree, path |-> p]

\* A variant of Eligible that takes every file of the source.
Eligible_All == {p \in FilePaths : SrcIsFile(p)}

\* The source files os.walk(src) yields that pass _valid_filename.
Eligible ==
    {p \in FilePaths : SrcIsFile(p) /\ valid_filename(Basename(p))}

\* The orders in which os.walk (top down) can yield the files of S: the
\* files of one directory together, in any order, and before the files of
\* the directories below it.
WalkOrders(S) ==
    {s \in [1..Cardinality(S) -> S] :
        /\ \A i, j \in 1..Cardinality(S) : i # j => s[i] # s[j]
        /\ \A i, j \in 1..Cardinality(S) :
              i < j => ~IsProperPrefix(Parent(s[j]), Parent(s[i]))
        /\ \A i, j, k \in 1..Cardinality(S) :
              (i < k /\ k < j /\ Parent(s[i]) = Parent(s[j]))
                  => Parent(s[k]) = Parent(s[i])}

\* A variant of DecidePull that leaves the destination as it is.
DecidePull_Skip(m) == IF m = "LIST" THEN "would_pull" ELSE "noop"

\* A variant of DecidePull that only reports in FORCE mode as well.
DecidePull_ForceReports(m) ==
    IF m \in {"LIST", "FORCE"} THEN "would_pull" ELSE "pull"

\* A variant of DecidePull that reports nothing in LIST mode.
DecidePull_ListSilent(m) == IF m = "LIST" THEN "noop" ELSE "pull"

\* Lines 128-136 and 145-153: a pull, or its report alone in LIST mode.
DecidePull(m) == IF m = "LIST" THEN "would_pull" ELSE "pull"

\* A variant of DecideDstChanged that never pushes.
DecideDstChanged_NoPush(m) ==
    IF m = "LIST" THEN "would_push" ELSE "pending"

\* A variant of DecideDstChanged that pushes in PULL mode as well.
DecideDstChanged_PullPushes(m) ==
    IF m = "LIST" THEN "would_push" ELSE "push"

\* A variant of DecideDstChanged that records the pair as a pending
\* conflict in LIST mode as well.
DecideDstChanged_ListPending(m) ==
    IF m = "FULL" THEN "push" ELSE "pending"

\* A variant of DecideDstChanged that forgets to note the pair outside
\* FULL mode.
DecideDstChanged_Forget(m) ==
    IF m = "LIST" THEN "would_push"
    ELSE IF m = "FULL" THEN "push"
    ELSE "noop"

\* Lines 159-171: dst changed and src did not.
DecideDstChanged(m) ==
    IF m = "LIST" THEN "would_push"
    ELSE IF m = "FULL" THEN "push"
    ELSE "pending"

\* A variant of DecideBothChanged in which src wins over a diverged dst.
DecideBothChanged_SrcWins(m, src_hash, dst_hash) ==
    IF src_hash = dst_hash
    THEN IF m = "LIST" THEN "would_refresh" ELSE "refresh"
    ELSE IF m = "LIST" THEN "would_pull" ELSE "pull"

\* A variant of DecideBothChanged that only reports a diverged pair in
\* LIST mode.
DecideBothChanged_ListReports(m, src_hash, dst_hash) ==
    IF src_hash = dst_hash
    THEN IF m = "LIST" THEN "would_refresh" ELSE "refresh"
    ELSE IF m = "LIST" THEN "noop" ELSE "diverged"

\* A variant of DecideBothChanged that rewrites the marker in LIST mode as
\* well.
DecideBothChanged_ListRefreshes(m, src_hash, dst_hash) ==
    IF src_hash = dst_hash THEN "refresh" ELSE "diverged"

\* A variant of DecideBothChanged that defers a diverged pair to the end of
\* the run, like a pending conflict.
DecideBothChanged_Defer(m, src_hash, dst_hash) ==
    IF src_hash = dst_hash
    THEN IF m = "LIST" THEN "would_refresh" ELSE "refresh"
    ELSE "pending"

\* Lines 180-195: the marker matches neither src nor dst.
DecideBothChanged(m, src_hash, dst_hash) ==
    IF src_hash = dst_hash
    THEN IF m = "LIST" THEN "would_refresh" ELSE "refresh"
    ELSE "diverged"

\* Line 198: the assert a pair reaches when no branch was taken.
AssertHealthy(src_hash, info) ==
    IF src_hash = info.marker_hash /\ info.dst_hash = info.marker_hash
    THEN "noop"
    ELSE "assert_failed"

\* A variant of Decide that pulls over a destination it cannot decode, as
\* if the file were missing.
Decide_Repair(m, dstIsFile, src_hash, info) ==
    IF ~dstIsFile \/ m = "FORCE" THEN DecidePull(m)
    ELSE IF info.err # "none" THEN DecidePull(m)
    ELSE IF src_hash # info.marker_hash /\ info.dst_hash = info.marker_hash
    THEN DecidePull(m)
    ELSE IF src_hash = info.marker_hash /\ info.dst_hash # info.marker_hash
    THEN DecideDstChanged(m)
    ELSE IF info.marker_hash \notin {src_hash, info.dst_hash}
    THEN DecideBothChanged(m, src_hash, info.dst_hash)
    ELSE AssertHealthy(src_hash, info)

\* A variant of Decide without the branch of lines 174-195.
Decide_NoBothChanged(m, dstIsFile, src_hash, info) ==
    IF ~dstIsFile \/ m = "FORCE" THEN DecidePull(m)
    ELSE IF info.err # "none" THEN "decode_error"
    ELSE IF src_hash # info.marker_hash /\ info.dst_hash = info.marker_hash
    THEN DecidePull(m)
    ELSE IF src_hash = info.marker_hash /\ info.dst_hash # info.marker_hash
    THEN DecideDstChanged(m)
    ELSE AssertHealthy(src_hash, info)

\* The branch of the loop body taken for one pair (lines 127-198), from
\* the mode, whether dstfile is a file, the hash of the source and the
\* result of get_dst_file_info.
Decide(m, dstIsFile, src_hash, info) ==
    IF ~dstIsFile \/ m = "FORCE" THEN DecidePull(m)
    ELSE IF info.err # "none" THEN "decode_error"
    ELSE IF src_hash # info.marker_hash /\ info.dst_hash = info.marker_hash
    THEN DecidePull(m)
    ELSE IF src_hash = info.marker_hash /\ info.dst_hash # info.marker_hash
    THEN DecideDstChanged(m)
    ELSE IF info.marker_hash \notin {src_hash, info.dst_hash}
    THEN DecideBothChanged(m, src_hash, info.dst_hash)
    ELSE AssertHealthy(src_hash, info)

\* A variant of NextIdx that leaves the loop at the first pending
\* conflict (break for continue).
NextIdx_Break(act, i) == IF act = "pending" THEN Len(allpaths) + 1 ELSE i + 1

\* The index of the pair the loop turns to after a branch that ends in
\* continue (or falls through the assert of line 198).
NextIdx(act, i) == i + 1

\* dstfile.parent.mkdir(parents=True, exist_ok=True): the directories made.
MkdirParents(p) == Ancestors(p) \ dstDirs

\* One call ends by raising e.
RaiseWith(e) ==
    /\ pc' = "raised"
    /\ err' = e
    /\ result' = -1
    /\ prev' = NoPrev

\* The positions at which no call is running.
Ended == {"idle", "returned", "raised", "check_returned", "check_raised"}

\* A variant of InvalidInput that takes any single file.
InvalidInput_AnyFile(m, t) ==
    \/ m = "CHECK"
    \/ ~(t \in srcDirs \/ (t \in FilePaths /\ SrcIsFile(t)))

\* Lines 97-100 and 107-109: the calls sync_paths turns down with
\* ValueError: CHECK mode, a src that is neither a directory nor a file, a
\* single file that _valid_filename turns down.
InvalidInput(m, t) ==
    \/ m = "CHECK"
    \/ ~(t \in srcDirs \/ (t \in FilePaths /\ SrcIsFile(t)))
    \/ t \in FilePaths /\ SrcIsFile(t) /\ ~valid_filename(Basename(t))

\* Lines 107-118: the pairs of a call on t, the single file itself or the
\* eligible files os.walk yields under the directory.
Discovered(t) ==
    IF t \in FilePaths /\ SrcIsFile(t)
    THEN {t}
    ELSE {p \in Eligible : IsPrefix(t, p)}

\* sync_paths, lines 97-118: the argument checks and the walk of src, for
\* a call on the path t of the two trees.
SyncCall(m, sp, t) ==
    /\ pc \in Ended
    /\ target' = t
    /\ runs < MaxRuns
    /\ runs' = runs + 1
    /\ mode' = m
    /\ proj' = sp
    /\ repeat' = (prev.ok /\ prev.mode = m /\ prev.proj = sp)
    /\ changed' = <<>>
    /\ writes' = {}
    /\ acted' = [p \in FilePaths |-> NotExamined]
    /\ pruned' = NoPrune
    /\ reads' = {}
    /\ start' = Trees(srcDirs, srcFiles, dstDirs, dstFiles)
    /\ last' = IF /\ m = "FULL"
                  /\ mode = "LIST"
                  /\ pc \in {"returned", "raised"}
                  /\ target = t
                  /\ proj = sp
               THEN [listed |-> TRUE, allpaths |-> allpaths, err |-> err,
                     acted |-> acted]
               ELSE NoLast
    /\ idx' = 1
    /\ IF InvalidInput(m, t)
       THEN /\ RaiseWith("ValueError")
            /\ allpaths' = <<>>
       ELSE /\ \E order \in WalkOrders(Discovered(t)) : allpaths' = order
            /\ pc' = "walk"
            /\ err' = "none"
            /\ result' = -1
            /\ prev' = NoPrev
    /\ UNCHANGED <<fsvars, edits, codecvars, sidevars>>

\* A call on the roots of the two trees.
SyncStart(m, sp) == SyncCall(m, sp, D_root)

\* A call on a directory below the roots or on a single file.
SyncStartAt(m, sp, t) == t # D_root /\ SyncCall(m, sp, t)

\* with dstfile.open('w') as outfile: outfile.write(add_marker(..)): the
\* file is opened, and so created or emptied, before add_marker runs.
WrittenDst(sp, data) ==
    LET m == add_marker(sp, data) IN
    IF m.err = "none" THEN m.val ELSE <<>>

\* sync_paths, lines 119-198: one turn of the loop over allpaths.
SyncPair ==
    /\ pc = "walk"
    /\ idx <= Len(allpaths)
    /\ LET p == allpaths[idx]
           srcdata == srcFiles[p]
           src_hash == string_hash(srcdata)
           made == MkdirParents(p)
           info == IF DstIsFile(p) /\ mode # "FORCE"
                   THEN get_dst_file_info(dstFiles[p])
                   ELSE NoInfo
           act == IF ~SrcIsFile(p) THEN "invalid_src"
                  ELSE Decide(mode, DstIsFile(p), src_hash, info)
           mk == {Wr("mkdir", "dst", d) : d \in made}
           rec == [act |-> act, existed |-> DstIsFile(p),
                   decoded |-> (DstIsFile(p) /\ mode # "FORCE"
                                   /\ info.err = "none"),
                   src_hash |-> src_hash,
                   marker_hash |-> info.marker_hash,
                   dst_hash |-> info.dst_hash]
           next == /\ idx' = NextIdx(act, idx)
                   /\ UNCHANGED <<pc, err, result, prev>>
       IN
       /\ acted' = [acted EXCEPT ![p] = rec]
       /\ reads' = reads
              \cup (IF act = "invalid_src" THEN {} ELSE {Rd("src", p)})
              \cup (IF DstIsFile(p) /\ mode # "FORCE" /\ act # "invalid_src"
                    THEN {Rd("dst", p)} ELSE {})
       /\ dstDirs' = IF act = "invalid_src" THEN dstDirs
                     ELSE dstDirs \cup made
       /\ CASE act = "invalid_src" ->
                 /\ RaiseWith("RuntimeError:invalid_src")
                 /\ UNCHANGED <<srcFiles, dstFiles, writes, changed, idx>>
            [] act \in {"pull", "refresh"} ->
                 /\ dstFiles' = [dstFiles EXCEPT
                                    ![p] = WrittenDst(proj, srcdata)]
                 /\ writes' = writes \cup mk \cup {Wr("write", "dst", p)}
                 /\ IF add_marker(proj, srcdata).err = "none"
                    THEN next
                    ELSE RaiseWith("RuntimeError:already_synced")
                         /\ UNCHANGED idx
                 /\ UNCHANGED <<srcFiles, changed>>
            [] act = "push" ->
                 /\ srcFiles' = [srcFiles EXCEPT ![p] = info.dstdata]
                 /\ dstFiles' = [dstFiles EXCEPT
                                    ![p] = WrittenDst(proj, info.dstdata)]
                 /\ writes' = writes \cup mk
                        \cup {Wr("write", "src", p), Wr("write", "dst", p)}
                 /\ IF add_marker(proj, info.dstdata).err = "none"
                    THEN next
                    ELSE RaiseWith("RuntimeError:already_synced")
                         /\ UNCHANGED idx
                 /\ UNCHANGED changed
            [] act = "pending" ->
                 /\ changed' = Append(changed, p)
                 /\ writes' = writes \cup mk
                 /\ next
                 /\ UNCHANGED <<srcFiles, dstFiles>>
            [] act \in {"would_pull", "would_push", "would_refresh",
                        "noop"} ->
                 /\ writes' = writes \cup mk
                 /\ next
                 /\ UNCHANGED <<srcFiles, dstFiles, changed>>
            [] act = "decode_error" ->
                 /\ writes' = writes \cup mk
                 /\ RaiseWith(info.err)
                 /\ UNCHANGED <<srcFiles, dstFiles, changed, idx>>
            [] act \in {"diverged", "assert_failed"} ->
                 /\ writes' = writes \cup mk
                 /\ RaiseWith(IF act = "diverged"
                              THEN "RuntimeError:diverged"
                              ELSE "AssertionError")
                 /\ UNCHANGED <<srcFiles, dstFiles, changed, idx>>
    /\ UNCHANGED <<srcDirs, mode, proj, target, allpaths, repeat, runs, edits,
                   pruned, start, last, codecvars, sidevars>>

\* name.startswith('.'): the chunks that begin with a dot.
StartsWithDot(name) == name # <<>> /\ name[1] \in {".", ".py", ".pyi"}

\* '__pycache__' in name
HasPycache(name) == HasChunk(name, "__pycache__")

\* The entries os.walk(dst) lists: every directory below dst and every
\* file (hidden directories are walked into like the others).
DstEntries ==
    (dstDirs \ {D_root}) \cup {p \in FilePaths : DstIsFile(p)}

\* A variant of PruneExempt that passes over nothing.
PruneExempt_None(p) == FALSE

\* Lines 205-207: the entries the pruning loop passes over ('__pycache__'
\* in root looks at the whole path of the directory that holds the entry).
PruneExempt(p) ==
    \/ StartsWithDot(Basename(p))
    \/ \E i \in 1..(Len(p) - 1) : HasPycache(p[i])
    \/ HasPycache(Basename(p))

\* A variant of KillPaths that lists directories only.
KillPaths_DirsOnly ==
    IF target \in dstDirs
    THEN {p \in dstDirs \ {D_root} :
             IsProperPrefix(target, p) /\ ~PruneExempt(p) /\ ~SrcExists(p)}
    ELSE {}

\* Lines 201-212: killpaths, the entries below dst when dst is a directory.
KillPaths ==
    IF target \in dstDirs
    THEN {p \in DstEntries :
             IsProperPrefix(target, p) /\ ~PruneExempt(p) /\ ~SrcExists(p)}
    ELSE {}

\* The kill paths still present when their turn comes: os.walk lists a
\* directory before what it holds, so rm -rf of it comes first.
KillRoots ==
    {p \in KillPaths : ~\E q \in KillPaths : IsProperPrefix(q, p)}

UnderKill(p) == \E q \in KillPaths : IsPrefix(q, p)

\* sync_paths, lines 200-224: prune what dst holds and src does not.
SyncPrune ==
    /\ pc = "walk"
    /\ idx > Len(allpaths)
    /\ pc' = "final"
    /\ IF mode = "LIST"
       THEN /\ pruned' = [listed |-> KillPaths, removed |-> {}]
            /\ UNCHANGED <<dstDirs, dstFiles, writes>>
       ELSE /\ dstDirs' = {d \in dstDirs : ~UnderKill(d)}
            /\ dstFiles' = [p \in FilePaths |->
                              IF UnderKill(p) THEN NoFile ELSE dstFiles[p]]
            /\ writes' = writes \cup {Wr("remove", "dst", p) : p \in KillRoots}
            /\ pruned' = [listed |-> KillRoots,
                          removed |-> {e \in DstEntries : UnderKill(e)}]
    /\ UNCHANGED <<srcDirs, srcFiles, mode, proj, target, allpaths, idx,
                   changed, err, result, acted, prev, repeat, runs, edits,
                   reads, start, last, codecvars, sidevars>>

\* sync_paths, lines 226-233: the aggregate error, or the count.
SyncFinish ==
    /\ pc = "final"
    /\ IF changed # <<>>
       THEN RaiseWith("RuntimeError:changed")
       ELSE /\ pc' = "returned"
            /\ err' = "none"
            /\ result' = Len(allpaths)
            /\ prev' = [mode |-> mode, proj |-> proj, ok |-> TRUE]
    /\ UNCHANGED <<fsvars, mode, proj, target, allpaths, idx, changed, writes,
                   acted, repeat, runs, edits, pruned, reads, start, last,
                   codecvars, sidevars>>

-----------------------------------------------------------------------------
(* check_path *)

\* Lines 239-242: the files os.walk(dst) yields that pass _valid_filename
\* (none when dst is not a directory).
CheckEligible ==
    IF D_root \in dstDirs
    THEN {p \in FilePaths : DstIsFile(p) /\ valid_filename(Basename(p))}
    ELSE {}

\* A variant of CheckReads that looks at the source file as well.
CheckReads_Both(p) == {Rd("dst", p), Rd("src", p)}

\* Line 244 (and 283-284): the files read for the file p of the walk.
CheckReads(p) == {Rd("dst", p)}

\* Lines 244-250: what the loop of check_path does with one file.
CheckOutcome(info) ==
    IF info.err # "none" THEN "decode_error"
    ELSE IF info.marker_hash # info.dst_hash THEN "mismatch"
    ELSE "checked"

\* check_path, lines 238-242: the walk of dst.
CheckStart ==
    /\ pc \in Ended
    /\ runs < MaxRuns
    /\ runs' = runs + 1
    /\ mode' = "CHECK"
    /\ proj' = <<>>
    /\ target' = D_root
    /\ repeat' = FALSE
    /\ prev' = NoPrev
    /\ changed' = <<>>
    /\ writes' = {}
    /\ acted' = [p \in FilePaths |-> NotExamined]
    /\ pruned' = NoPrune
    /\ reads' = {}
    /\ start' = Trees(srcDirs, srcFiles, dstDirs, dstFiles)
    /\ last' = NoLast
    /\ idx' = 1
    /\ \E order \in WalkOrders(CheckEligible) : allpaths' = order
    /\ pc' = "check"
    /\ err' = "none"
    /\ result' = -1
    /\ UNCHANGED <<fsvars, edits, codecvars, sidevars>>

\* check_path, lines 243-250: one turn of the loop over allpaths.
CheckFile ==
    /\ pc = "check"
    /\ idx <= Len(allpaths)
    /\ LET p == allpaths[idx]
           info == get_dst_file_info(dstFiles[p])
           out == CheckOutcome(info)
       IN
       /\ reads' = reads \cup CheckReads(p)
       /\ acted' = [acted EXCEPT ![p] =
                       [act |-> out, existed |-> TRUE,
                        decoded |-> (info.err = "none"),
                        src_hash |-> <<>>,
                        marker_hash |-> info.marker_hash,
                        dst_hash |-> info.dst_hash]]
       /\ CASE out = "decode_error" ->
                 /\ pc' = "check_raised"
                 /\ err' = info.err
                 /\ UNCHANGED idx
            [] out = "mismatch" ->
                 /\ pc' = "check_raised"
                 /\ err' = "RuntimeError:check_changed"
                 /\ UNCHANGED idx
            [] out = "checked" ->
                 /\ idx' = idx + 1
                 /\ UNCHANGED <<pc, err>>
    /\ UNCHANGED <<fsvars, mode, proj, target, allpaths, changed, result,
                   writes, prev, repeat, runs, edits, pruned, start, last,
                   codecvars, sidevars>>

\* check_path, line 251: the count.
CheckFinish ==
    /\ pc = "check"
    /\ idx > Len(allpaths)
    /\ pc' = "check_returned"
    /\ result' = Len(allpaths)
    /\ UNCHANGED <<fsvars, mode, proj, target, allpaths, idx, changed, err,
                   histvars, codecvars, sidevars>>

-----------------------------------------------------------------------------
(* The user, between two calls *)

\* The contents a file is given: x=1 with no final newline, x=1 and x=2.
Contents == {<<"x=1">>, <<"x=1", NL>>, <<"x=2", NL>>}

\* What a destination file may hold: any body under the marker of any
\* content (as left by a sync and edited since), or nothing at all.
DstTexts ==
    {MarkerHeader(sp, string_hash(c1)) \o <<NL>> \o c2 :
        sp \in Projects, c1 \in Contents, c2 \in Contents}
    \cup {<<>>}

Idle == pc \in Ended

\* An edit comes between two calls (the trees before the first call are
\* any trees already).
UserEdit ==
    /\ Idle
    /\ cpc = "off"
    /\ runs > 0
    /\ edits < MaxEdits
    /\ edits' = edits + 1
    /\ pc' = "idle"
    /\ prev' = NoPrev
    /\ UNCHANGED <<mode, proj, target, allpaths, idx, changed, err, result,
                   writes, acted, repeat, runs, pruned, reads, codecvars,
                   sidevars>>

\* The user writes a source file.
UserWriteSrc(p, c) ==
    /\ UserEdit
    /\ srcFiles[p] # c
    /\ srcFiles' = [srcFiles EXCEPT ![p] = c]
    /\ srcDirs' = srcDirs \cup Ancestors(p)
    /\ start' = Trees(srcDirs', srcFiles', dstDirs, dstFiles)
    /\ last' = NoLast
    /\ UNCHANGED <<dstDirs, dstFiles>>

\* The user removes a source file.
UserRemoveSrc(p) ==
    /\ UserEdit
    /\ SrcIsFile(p)
    /\ srcFiles' = [srcFiles EXCEPT ![p] = NoFile]
    /\ start' = Trees(srcDirs, srcFiles', dstDirs, dstFiles)
    /\ last' = NoLast
    /\ UNCHANGED <<srcDirs, dstDirs, dstFiles>>

\* The user edits the body of a destination file below its three header
\* lines.
UserEditDst(p, c) ==
    /\ UserEdit
    /\ DstIsFile(p)
    /\ Len(splitlines(dstFiles[p])) >= 3
    /\ LET t == join(SubSeq(splitlines(dstFiles[p]), 1, 3)) \o <<NL>> \o c
       IN  /\ dstFiles[p] # t
           /\ dstFiles' = [dstFiles EXCEPT ![p] = t]
    /\ start' = Trees(srcDirs, srcFiles, dstDirs, dstFiles')
    /\ last' = NoLast
    /\ UNCHANGED <<srcDirs, srcFiles, dstDirs>>

-----------------------------------------------------------------------------
(* Specification of the sync runs *)

\* No call was made on the controller yet.
NoCall ==
    [op |-> "none", immediate |-> FALSE, reason |-> "None",
     had_reason |-> FALSE, was_executing |-> FALSE, before |-> <<>>,
     ret |-> FALSE]

\* The app is not in server mode.
ServerOff ==
    /\ spc = "off"
    /\ playlist_code = FALSE
    /\ session_type = "ffa"
    /\ prep_timer = FALSE
    /\ next_stuck_login_warn_time = 0
    /\ shutdown_reason = "None"
    /\ executing_shutdown = FALSE
    /\ playlist_fetch_running = FALSE
    /\ playlist_fetch_sent_request = FALSE
    /\ playlist_fetch_got_response = FALSE
    /\ ran_access_check = FALSE
    /\ playlist_name = "__default__"
    /\ account_state = "signed_out"
    /\ now = 0
    /\ inflight = {}
    /\ pushed = 0
    /\ effects = <<>>
    /\ scall = NoCall

\* No call of dataclass_assign is made.
DataclassOff ==
    /\ dpc = "off"
    /\ dfields = <<>>
    /\ dinst = <<>>
    /\ dinst0 = <<>>
    /\ dvalues = <<>>
    /\ didx = 1
    /\ derr = "none"
    /\ dkind = "ok"

CodecOff ==
    /\ cpc = "off"
    /\ cproj = <<>>
    /\ cdata = <<>>
    /\ cenc = Ok(<<>>)
    /\ cdec = NoInfo

RunIdle ==
    /\ pc = "idle"
    /\ mode = "none"
    /\ proj = <<>>
    /\ target = D_root
    /\ allpaths = <<>>
    /\ idx = 1
    /\ changed = <<>>
    /\ err = "none"
    /\ result = -1
    /\ writes = {}
    /\ acted = [p \in FilePaths |-> NotExamined]
    /\ prev = NoPrev
    /\ repeat = FALSE
    /\ runs = 0
    /\ edits = 0
    /\ pruned = NoPrune
    /\ reads = {}
    /\ start = Trees(srcDirs, srcFiles, dstDirs, dstFiles)
    /\ last = NoLast

\* The files f gives to some of the paths, and no file at the others.
Files(f) == [p \in FilePaths |-> IF p \in DOMAIN f THEN f[p] ELSE NoFile]

\* Any two trees over a.py and d/b.py: src is a directory, dst may not
\* exist yet.
Init ==
    /\ srcFiles \in {Files(f) : f \in [CorePaths -> {NoFile} \cup Contents]}
    /\ dstFiles \in {Files(f) : f \in [CorePaths -> {NoFile} \cup DstTexts]}
    /\ srcDirs \in SUBSET CoreDirs
    /\ dstDirs \in SUBSET CoreDirs
    /\ D_root \in srcDirs
    /\ TreeOk(srcDirs, srcFiles)
    /\ TreeOk(dstDirs, dstFiles)
    /\ RunIdle
    /\ CodecOff
    /\ ServerOff
    /\ DataclassOff

Next ==
    \/ \E m \in Modes, sp \in Projects : SyncStart(m, sp)
    \/ SyncPair
    \/ SyncPrune
    \/ SyncFinish
    \/ \E p \in CorePaths, c \in Contents : UserWriteSrc(p, c)
    \/ \E p \in CorePaths : UserRemoveSrc(p)
    \/ \E p \in CorePaths, c \in Contents : UserEditDst(p, c)

Spec == Init /\ [][Next]_vars

-----------------------------------------------------------------------------
(* Specification of the sync runs over a wider choice of contents for a.py *)

\* A content that carries a marker itself: its second line holds
\* EFRO_SYNC_HASH= (a file copied out of a synced tree).
Managed == <<"x=1", NL, "# ", KEY, EQ, "0", NL>>

WideContents == Contents \cup {Managed}

\* Any body under the marker of any content, bodies with a marker of their
\* own included, or nothing at all.
WideDstTexts ==
    {MarkerHeader(sp, string_hash(c1)) \o <<NL>> \o c2 :
        sp \in Projects, c1 \in WideContents, c2 \in WideContents}
    \cup {<<>>}

\* d/b.py as a sync of x=2 left it.
SyncedB == add_marker(<<"efro">>, <<"x=2", NL>>).val

InitWide ==
    /\ srcFiles \in {Files(P_a :> a @@ P_b :> b) :
                        a \in {NoFile} \cup WideContents,
                        b \in {NoFile, <<"x=2", NL>>}}
    /\ dstFiles \in {Files(P_a :> a @@ P_b :> b) :
                        a \in {NoFile} \cup WideDstTexts,
                        b \in {NoFile, SyncedB}}
    /\ srcDirs \in SUBSET CoreDirs
    /\ dstDirs \in SUBSET CoreDirs
    /\ D_root \in srcDirs
    /\ TreeOk(srcDirs, srcFiles)
    /\ TreeOk(dstDirs, dstFiles)
    /\ RunIdle
    /\ CodecOff
    /\ ServerOff
    /\ DataclassOff

SpecWide == InitWide /\ [][Next]_vars

-----------------------------------------------------------------------------
(* Specification of the sync runs over trees with hidden and cache entries *)

\* What a sync of the content c leaves in the destination.
Synced(c) == add_marker(<<"efro">>, c).val

\* The source holds a.py and d/b.py or not; the destination holds any of
\* the four files, a.py as a sync left it, emptied, or as a plain one-line
\* file without a marker, and any directories.
InitTree ==
    /\ srcFiles \in {Files(P_a :> a @@ P_b :> b) :
                        a \in {NoFile} \cup Contents,
                        b \in {NoFile, <<"x=2", NL>>}}
    /\ dstFiles \in {Files(P_a :> a @@ P_b :> b @@ P_h :> h @@ P_c :> c) :
                        a \in {NoFile, <<>>, <<"x=1", NL>>}
                                 \cup {Synced(t) : t \in Contents},
                        b \in {NoFile, SyncedB},
                        h \in {NoFile, SyncedB},
                        c \in {NoFile, SyncedB}}
    /\ srcDirs \in SUBSET CoreDirs
    /\ dstDirs \in SUBSET DirPaths
    /\ D_root \in srcDirs
    /\ TreeOk(srcDirs, srcFiles)
    /\ TreeOk(dstDirs, dstFiles)
    /\ RunIdle
    /\ CodecOff
    /\ ServerOff
    /\ DataclassOff

SpecTree == InitTree /\ [][Next]_vars

\* The same trees, with calls of check_path among the calls of sync_paths
\* (run_standard_syncs in CHECK mode).
NextCheck ==
    \/ Next
    \/ CheckStart
    \/ CheckFile
    \/ CheckFinish

SpecCheck == InitTree /\ [][NextCheck]_vars

-----------------------------------------------------------------------------
(* Specification of the calls on any src and dst paths                     *)

\* The paths a call is made on: the roots, the directory d, the single
\* files a.py and notes.txt.
Targets == {D_root, D_d, P_a, P_n}

\* The source holds a.py, d/b.py and notes.txt or not, and may not exist at
\* all; the destination holds a.py as a sync left it (of this source or of
\* an older one), d/b.py as a sync left it, a plain notes.txt, or not.
InitArgs ==
    /\ srcFiles \in {Files(P_a :> a @@ P_b :> b @@ P_n :> n) :
                        a \in {NoFile, <<"x=1", NL>>},
                        b \in {NoFile, <<"x=2", NL>>},
                        n \in {NoFile, <<"x=1", NL>>}}
    /\ dstFiles \in {Files(P_a :> a @@ P_b :> b @@ P_n :> n) :
                        a \in {NoFile, Synced(<<"x=1", NL>>),
                                 Synced(<<"x=2", NL>>)},
                        b \in {NoFile, SyncedB},
                        n \in {NoFile, <<"x=1", NL>>}}
    /\ srcDirs \in SUBSET CoreDirs
    /\ dstDirs \in SUBSET CoreDirs
    /\ TreeOk(srcDirs, srcFiles)
    /\ TreeOk(dstDirs, dstFiles)
    /\ RunIdle
    /\ CodecOff
    /\ ServerOff
    /\ DataclassOff

NextArgs ==
    \/ \E m \in Modes, sp \in Projects : SyncStart(m, sp)
    \/ \E m \in Modes, sp \in Projects, t \in Targets :
          SyncStartAt(m, sp, t)
    \/ SyncPair
    \/ SyncPrune
    \/ SyncFinish

SpecArgs == InitArgs /\ [][NextArgs]_vars

-----------------------------------------------------------------------------
(* Specification of the codec runs: add_marker, then get_dst_file_info *)

CodecAlphabet == {"x", NL, FF, KEY, EQ}
CodecProjects == {<<"efro">>, <<"ba", "tools">>}

\* The texts of at most n tokens.
Texts(n) == UNION {[1..k -> CodecAlphabet] : k \in 0..n}

InitCodec ==
    /\ cpc = "in"
    /\ cproj \in CodecProjects
    /\ cdata \in Texts(MaxLen)
    /\ cenc = Ok(<<>>)
    /\ cdec = NoInfo
    /\ srcDirs = {D_root}
    /\ dstDirs = {}
    /\ srcFiles = [p \in FilePaths |-> NoFile]
    /\ dstFiles = [p \in FilePaths |-> NoFile]
    /\ RunIdle
    /\ ServerOff
    /\ DataclassOff

\* add_marker(cproj, cdata)
CodecEncode ==
    /\ cpc = "in"
    /\ cpc' = "enc"
    /\ cenc' = add_marker(cproj, cdata)
    /\ UNCHANGED <<cproj, cdata, cdec, fsvars, runvars, histvars, sidevars>>

\* get_dst_file_info on a file that holds what add_marker returned.
CodecDecode ==
    /\ cpc = "enc"
    /\ cenc.err = "none"
    /\ cpc' = "dec"
    /\ cdec' = get_dst_file_info(cenc.val)
    /\ UNCHANGED <<cproj, cdata, cenc, fsvars, runvars, histvars, sidevars>>

\* get_dst_file_info on a file that holds the content itself.
CodecDecodeRaw ==
    /\ cpc = "in"
    /\ cpc' = "raw"
    /\ cdec' = get_dst_file_info(cdata)
    /\ UNCHANGED <<cproj, cdata, cenc, fsvars, runvars, histvars, sidevars>>

NextCodec == CodecEncode \/ CodecDecode \/ CodecDecodeRaw

SpecCodec == InitCodec /\ [][NextCodec]_vars

-----------------------------------------------------------------------------
(* ServerController *)

\* The values of bacommon.servermanager.ShutdownReason, and None.
ShutdownReasons == {"RESTARTING", "NONE"}

\* What _ba.get_account_state() can return.
AccountStates == {"signed_out", "signing_in", "signed_in"}

\* The 10.0 seconds between two complaints about a stuck sign-in, in ticks
\* of the clock.
WarnEvery == 2

\* What an IMPORT_PLAYLIST transaction can answer: None, or a playlist of
\* one of the two known types or of another one.
PlaylistResults == {"None", "Team Tournament", "Free-for-All", "Other"}

Chat(text) == [kind |-> "chat_message", arg |-> text]
QuitTimer == [kind |-> "timer_quit", arg |-> "2.0"]
ImportPlaylist == [kind |-> "IMPORT_PLAYLIST", arg |-> "overwrite"]
PushLaunch == [kind |-> "pushcall", arg |-> "_launch_server_session"]
NewHostSession(t) == [kind |-> "new_host_session", arg |-> t]
AccessCheck == [kind |-> "bsAccessCheck", arg |-> "port"]
LaunchError == [kind |-> "RuntimeError", arg |-> "Invalid session_type"]
StuckWarning == [kind |-> "print", arg |-> "Still waiting"]

\* The number of effects of the kind k.
RECURSIVE Count(_, _)
Count(eff, k) ==
    IF eff = <<>> THEN 0
    ELSE (IF Head(eff).kind = k THEN 1 ELSE 0) + Count(Tail(eff), k)

\* A variant of execute_shutdown without the guard of lines 122-123.
execute_shutdown_Again(executing, reason, eff) ==
    [executing |-> TRUE,
     effects |-> eff \o <<Chat(IF reason = "RESTARTING"
                                THEN "serverRestartingText"
                                ELSE "serverShuttingDownText"),
                           QuitTimer>>]

\* _execute_shutdown, lines 120-141: the flag and the effects after it.
execute_shutdown(executing, reason, eff) ==
    IF executing
    THEN [executing |-> TRUE, effects |-> eff]
    ELSE [executing |-> TRUE,
          effects |-> eff \o <<Chat(IF reason = "RESTARTING"
                                     THEN "serverRestartingText"
                                     ELSE "serverShuttingDownText"),
                                QuitTimer>>]

\* __init__, lines 69-94: the controller as constructed for a config with
\* or without a playlist code; the app runs, signed in or not yet.
InitController ==
    /\ spc = "running"
    /\ playlist_code \in BOOLEAN
    /\ session_type \in {"ffa", "teams"}
    /\ playlist_name = "__default__"
    /\ ran_access_check = FALSE
    /\ prep_timer = TRUE
    /\ now = 0
    /\ next_stuck_login_warn_time = now + WarnEvery
    /\ shutdown_reason = "None"
    /\ executing_shutdown = FALSE
    /\ playlist_fetch_running = playlist_code
    /\ playlist_fetch_sent_request = FALSE
    /\ playlist_fetch_got_response = FALSE
    /\ account_state \in AccountStates
    /\ inflight = {}
    /\ pushed = 0
    /\ effects = <<>>
    /\ scall = NoCall

\* What a call leaves of the fields it does not touch.
ServerFrame ==
    UNCHANGED <<spc, playlist_code, session_type, prep_timer,
                next_stuck_login_warn_time, playlist_fetch_running,
                playlist_fetch_sent_request, playlist_fetch_got_response,
                ran_access_check, playlist_name, account_state, now,
                inflight, pushed, syncvars, dcvars>>

\* shutdown(reason, immediate), lines 96-105.
Shutdown(reason, immediate) ==
    /\ spc = "running"
    /\ shutdown_reason' = reason
    /\ LET x == execute_shutdown(executing_shutdown, reason, effects) IN
         IF immediate
         THEN /\ executing_shutdown' = x.executing
              /\ effects' = x.effects
         ELSE UNCHANGED <<executing_shutdown, effects>>
    /\ scall' = [op |-> "shutdown", immediate |-> immediate,
                 reason |-> reason,
                 had_reason |-> (shutdown_reason # "None"),
                 was_executing |-> executing_shutdown,
                 before |-> effects, ret |-> FALSE]
    /\ ServerFrame

\* A variant of transition_handled that answers for a running shutdown
\* only.
transition_handled_WhenExecuting(reason, executing) == executing

\* handle_transition, line 115: the controller takes the transition.
transition_handled(reason, executing) == reason # "None"

\* handle_transition(), lines 107-118.
HandleTransition ==
    /\ spc = "running"
    /\ LET ret == transition_handled(shutdown_reason, executing_shutdown)
           x == execute_shutdown(executing_shutdown, shutdown_reason,
                                 effects)
       IN  /\ IF ret
              THEN /\ executing_shutdown' = x.executing
                   /\ effects' = x.effects
              ELSE UNCHANGED <<executing_shutdown, effects>>
           /\ scall' = [op |-> "handle_transition", immediate |-> FALSE,
                        reason |-> shutdown_reason,
                        had_reason |-> (shutdown_reason # "None"),
                        was_executing |-> executing_shutdown,
                        before |-> effects, ret |-> ret]
    /\ UNCHANGED shutdown_reason
    /\ ServerFrame

\* The timer of line 141 fires: _ba.quit ends the app.
QuitFires ==
    /\ spc = "running"
    /\ Count(effects, "timer_quit") > 0
    /\ spc' = "exited"
    /\ UNCHANGED <<playlist_code, session_type, prep_timer,
                   next_stuck_login_warn_time, shutdown_reason,
                   executing_shutdown, playlist_fetch_running,
                   playlist_fetch_sent_request, playlist_fetch_got_response,
                   ran_access_check, playlist_name, account_state, now,
                   inflight, pushed, effects, scall, syncvars, dcvars>>

\* time.time() grows.
TimePasses ==
    /\ spc = "running"
    /\ now < MaxTime
    /\ now' = now + 1
    /\ UNCHANGED <<spc, playlist_code, session_type, prep_timer,
                   next_stuck_login_warn_time, shutdown_reason,
                   executing_shutdown, playlist_fetch_running,
                   playlist_fetch_sent_request, playlist_fetch_got_response,
                   ran_access_check, playlist_name, account_state, inflight,
                   pushed, effects, scall, syncvars, dcvars>>

\* The account signs in or out.
AccountChange(a) ==
    /\ spc = "running"
    /\ a # account_state
    /\ account_state' = a
    /\ UNCHANGED <<spc, playlist_code, session_type, prep_timer,
                   next_stuck_login_warn_time, shutdown_reason,
                   executing_shutdown, playlist_fetch_running,
                   playlist_fetch_sent_request, playlist_fetch_got_response,
                   ran_access_check, playlist_name, now, inflight, pushed,
                   effects, scall, syncvars, dcvars>>

\* A variant of can_launch that does not wait for the response.
can_launch_OnRequest(running, got_response) == TRUE

\* A variant of can_launch that waits for a response in any case.
can_launch_NeedsResponse(running, got_response) == got_response

\* Lines 181-202: can_launch, for a signed-in account.
can_launch(running, got_response) == ~running \/ got_response

\* Line 170.
signed_in(a) == a = "signed_in"

\* _prepare_to_serve(), lines 169-206: one firing of the prep timer.
PrepareToServe ==
    /\ spc = "running"
    /\ prep_timer
    /\ IF ~signed_in(account_state)
       THEN /\ IF now > next_stuck_login_warn_time
               THEN /\ next_stuck_login_warn_time' = now + WarnEvery
                    /\ effects' = Append(effects, StuckWarning)
               ELSE UNCHANGED <<next_stuck_login_warn_time, effects>>
            /\ UNCHANGED <<prep_timer, playlist_fetch_running,
                           playlist_fetch_sent_request, inflight, pushed>>
       ELSE LET send == playlist_fetch_running
                            /\ ~playlist_fetch_sent_request
                launch == can_launch(playlist_fetch_running,
                                     playlist_fetch_got_response)
            IN  /\ playlist_fetch_sent_request' =
                       (playlist_fetch_sent_request \/ send)
                /\ inflight' = IF send
                               THEN inflight \cup {"IMPORT_PLAYLIST"}
                               ELSE inflight
                /\ playlist_fetch_running' =
                       (playlist_fetch_running
                           /\ ~playlist_fetch_got_response)
                /\ prep_timer' = ~launch
                /\ pushed' = IF launch THEN pushed + 1 ELSE pushed
                /\ effects' = effects
                       \o (IF send THEN <<ImportPlaylist>> ELSE <<>>)
                       \o (IF launch THEN <<PushLaunch>> ELSE <<>>)
                /\ UNCHANGED next_stuck_login_warn_time
    /\ UNCHANGED <<spc, playlist_code, session_type, shutdown_reason,
                   executing_shutdown, playlist_fetch_got_response,
                   ran_access_check, playlist_name, account_state, now, scall,
                   syncvars, dcvars>>

\* Lines 217-219.
typename(res) ==
    IF res = "Team Tournament" THEN "teams"
    ELSE IF res = "Free-for-All" THEN "ffa"
    ELSE "??"

\* _on_playlist_fetch_response(res), lines 208-224; sys.exit(-1) ends
\* the app.
PlaylistFetchResponse(res) ==
    /\ spc = "running"
    /\ "IMPORT_PLAYLIST" \in inflight
    /\ inflight' = inflight \ {"IMPORT_PLAYLIST"}
    /\ IF res = "None"
       THEN /\ spc' = "exited"
            /\ UNCHANGED <<playlist_fetch_got_response, session_type,
                           playlist_name>>
       ELSE /\ playlist_fetch_got_response' = TRUE
            /\ session_type' = typename(res)
            /\ playlist_name' = "playlistName"
            /\ UNCHANGED spc
    /\ UNCHANGED <<playlist_code, prep_timer, next_stuck_login_warn_time,
                   shutdown_reason, executing_shutdown,
                   playlist_fetch_running, playlist_fetch_sent_request,
                   ran_access_check, account_state, now, pushed, effects,
                   scall, syncvars, dcvars>>

\* _launch_server_session(), lines 236-277, with _get_session_type, lines
\* 226-234: the pushed call runs.
LaunchServerSession ==
    /\ spc = "running"
    /\ pushed > 0
    /\ pushed' = pushed - 1
    /\ IF session_type \notin {"ffa", "teams"}
       THEN /\ effects' = Append(effects, LaunchError)
            /\ UNCHANGED <<ran_access_check, inflight>>
       ELSE /\ effects' = effects \o <<NewHostSession(session_type)>>
                   \o (IF ran_access_check THEN <<>> ELSE <<AccessCheck>>)
            /\ inflight' = IF ran_access_check THEN inflight
                           ELSE inflight \cup {"bsAccessCheck"}
            /\ ran_access_check' = TRUE
    /\ UNCHANGED <<spc, playlist_code, session_type, prep_timer,
                   next_stuck_login_warn_time, shutdown_reason,
                   executing_shutdown, playlist_fetch_running,
                   playlist_fetch_sent_request, playlist_fetch_got_response,
                   playlist_name, account_state, now, scall, syncvars, dcvars>>

\* _access_check_response(data), lines 155-167: it only prints.
AccessCheckResponse ==
    /\ spc = "running"
    /\ "bsAccessCheck" \in inflight
    /\ inflight' = inflight \ {"bsAccessCheck"}
    /\ UNCHANGED <<spc, playlist_code, session_type, prep_timer,
                   next_stuck_login_warn_time, shutdown_reason,
                   executing_shutdown, playlist_fetch_running,
                   playlist_fetch_sent_request, playlist_fetch_got_response,
                   ran_access_check, playlist_name, account_state, now,
                   pushed, effects, scall, syncvars, dcvars>>

\* No sync and no codec run is made.
SyncOff ==
    /\ srcDirs = {D_root}
    /\ dstDirs = {}
    /\ srcFiles = [p \in FilePaths |-> NoFile]
    /\ dstFiles = [p \in FilePaths |-> NoFile]
    /\ RunIdle
    /\ CodecOff

InitServer ==
    /\ InitController
    /\ SyncOff
    /\ DataclassOff

NextServer ==
    \/ \E r \in ShutdownReasons, i \in BOOLEAN : Shutdown(r, i)
    \/ HandleTransition
    \/ QuitFires
    \/ TimePasses
    \/ \E a \in AccountStates : AccountChange(a)
    \/ PrepareToServe
    \/ \E res \in PlaylistResults : PlaylistFetchResponse(res)
    \/ LaunchServerSession
    \/ AccessCheckResponse

SpecServer == InitServer /\ [][NextServer]_vars

\* The prep timer of lines 91-94 repeats, so that _prepare_to_serve keeps
\* running while the timer is held; a transaction that was run is answered.
SpecServerLive ==
    /\ SpecServer
    /\ WF_vars(PrepareToServe)
    /\ WF_vars(\E res \in PlaylistResults : PlaylistFetchResponse(res))

-----------------------------------------------------------------------------
(* dataclass_assign *)

\* A value is its exact type, type(value).__name__, and its repr.
Val(t, v) == [type |-> t, repr |-> v]

\* The values passed: a bool, an int, a float and None.
Values ==
    {Val("bool", "True"), Val("int", "1"), Val("float", "1.5"),
     Val("NoneType", "None")}

\* isinstance(value, t): bool is a subclass of int.
IsInstance(value, t) ==
    value.type = t \/ (value.type = "bool" /\ t = "int")

\* Lines 32-41: _SIMPLE_ASSIGN_TYPES.
SIMPLE_ASSIGN_TYPES ==
    [t \in {"bool", "str", "int", "float", "Optional[int]",
            "Optional[str]", "Optional[bool]", "Optional[float]"} |->
        CASE t = "bool" -> {"bool"}
          [] t = "str" -> {"str"}
          [] t = "int" -> {"int"}
          [] t = "float" -> {"float"}
          [] t = "Optional[int]" -> {"int", "NoneType"}
          [] t = "Optional[str]" -> {"str", "NoneType"}
          [] t = "Optional[bool]" -> {"bool", "NoneType"}
          [] t = "Optional[float]" -> {"float", "NoneType"}]

\* A declared field type: the string the annotation is under 'from
\* __future__ import annotations', or the type itself without it.
Annotation(text) == [is_str |-> TRUE, text |-> text]
ActualType(text) == [is_str |-> FALSE, text |-> text]

\* The names of the fields of the dataclass, and a key that is no field.
FieldNames == {"i", "f", "o", "l"}
Keys == FieldNames \cup {"zz"}

\* A dataclass of a module with the __future__ import:
\*   i: int = 0;  f: float = 0.0;  o: Optional[int] = None;  l: List[int]
\* and the same dataclass of a module without it.
AnnotatedFields ==
    [n \in FieldNames |->
        CASE n = "i" -> Annotation("int")
          [] n = "f" -> Annotation("float")
          [] n = "o" -> Annotation("Optional[int]")
          [] n = "l" -> Annotation("List[int]")]
TypedFields ==
    [n \in FieldNames |->
        ActualType(IF n = "o" THEN "Optional" ELSE AnnotatedFields[n].text)]

\* The instance as constructed with its defaults.
Defaults ==
    [n \in FieldNames |->
        CASE n = "i" -> Val("int", "0")
          [] n = "f" -> Val("float", "0.0")
          [] n = "o" -> Val("NoneType", "None")
          [] n = "l" -> Val("list", "[]")]

Item(k, v) == [key |-> k, value |-> v]

\* The dicts of at most n items, as the sequences of their items in
\* iteration order: no key twice.
RECURSIVE Dicts(_)
Dicts(n) ==
    IF n = 0 THEN {<<>>}
    ELSE LET shorter == Dicts(n - 1) IN
         shorter \cup
         UNION {{Append(d, Item(k, v)) :
                    k \in Keys \ {d[j].key : j \in 1..Len(d)},
                    v \in Values} :
                d \in {e \in shorter : Len(e) = n - 1}}

\* A variant of type_matches that checks with isinstance.
type_matches_IsInstance(value, reqtypes) ==
    \E t \in reqtypes : IsInstance(value, t)

\* Line 88: any(type(value) is t for t in reqtypes).
type_matches(value, reqtypes) == value.type \in reqtypes

\* Lines 70-98: what the checks of one item end in.
check_item(fields, key, value) ==
    IF key \notin DOMAIN fields THEN "AttributeError"
    ELSE IF ~fields[key].is_str THEN "RuntimeError"
    ELSE IF fields[key].text \notin DOMAIN SIMPLE_ASSIGN_TYPES
    THEN "TypeError:unsupported"
    ELSE IF ~type_matches(value, SIMPLE_ASSIGN_TYPES[fields[key].text])
    THEN "TypeError:value"
    ELSE "none"

\* A variant of setattr that leaves the instance alone.
setattr_Later(inst, key, value) == inst

\* Line 101: setattr(instance, key, value).
setattr(inst, key, value) == [inst EXCEPT ![key] = value]

\* A call of dataclass_assign(instance, values) is about to be made: on an
\* instance of one of the two dataclasses with a dict, on something that
\* is no dataclass, or with something that is no dict.
InitDataclass ==
    /\ dpc = "in"
    /\ dkind \in {"ok", "not_dataclass", "not_dict"}
    /\ dfields \in {AnnotatedFields, TypedFields}
    /\ dinst = Defaults
    /\ dinst0 = dinst
    /\ dvalues \in Dicts(IF dkind = "ok" THEN MaxItems ELSE 1)
    /\ didx = 1
    /\ derr = "none"

\* Lines 63-68: the checks of the two arguments.
AssignStart ==
    /\ dpc = "in"
    /\ IF dkind = "not_dataclass"
       THEN dpc' = "raised" /\ derr' = "TypeError:not_dataclass"
       ELSE IF dkind = "not_dict"
       THEN dpc' = "raised" /\ derr' = "TypeError:not_dict"
       ELSE dpc' = "loop" /\ derr' = "none"
    /\ UNCHANGED <<dfields, dinst, dinst0, dvalues, didx, dkind, syncvars,
                   servervars>>

\* Lines 69-101: one turn of the loop over values.items().
AssignItem ==
    /\ dpc = "loop"
    /\ didx <= Len(dvalues)
    /\ LET key == dvalues[didx].key
           value == dvalues[didx].value
           e == check_item(dfields, key, value)
       IN  IF e = "none"
           THEN /\ dinst' = setattr(dinst, key, value)
                /\ didx' = didx + 1
                /\ UNCHANGED <<dpc, derr>>
           ELSE /\ dpc' = "raised"
                /\ derr' = e
                /\ UNCHANGED <<dinst, didx>>
    /\ UNCHANGED <<dfields, dinst0, dvalues, dkind, syncvars, servervars>>

\* The loop is over: dataclass_assign returns.
AssignReturn ==
    /\ dpc = "loop"
    /\ didx > Len(dvalues)
    /\ dpc' = "returned"
    /\ UNCHANGED <<dfields, dinst, dinst0, dvalues, didx, derr, dkind,
                   syncvars, servervars>>

InitAssign ==
    /\ InitDataclass
    /\ SyncOff
    /\ ServerOff

NextAssign == AssignStart \/ AssignItem \/ AssignReturn

SpecAssign == InitAssign /\ [][NextAssign]_vars

-----------------------------------------------------------------------------
(* Properties *)

Range(f) == {f[i] : i \in DOMAIN f}

\* The running call wrote the file p of one of the trees.
Written(p) == \E w \in writes : w.op = "write" /\ w.path = p

\* A decoded pair of which dst changed and src did not.
DstChangedOnly(r) ==
    r.decoded /\ r.src_hash = r.marker_hash /\ r.dst_hash # r.marker_hash

\* A decoded pair whose three hashes are mutually different.
ThreeDifferent(r) ==
    /\ r.decoded
    /\ r.src_hash # r.marker_hash
    /\ r.dst_hash # r.marker_hash
    /\ r.src_hash # r.dst_hash

InLoop == pc \in {"walk", "final"}

\* C1 (as claimed, for the modes that compare hashes before they write): a
\* call that repeats a call that returned, with both trees unchanged in
\* between, modifies no file: it writes no destination file and no source
\* file and removes nothing.
C1_Idempotent == (repeat /\ mode # "FORCE") => writes = {}

\* C2 (as claimed): get_dst_file_info applied to what add_marker returns
\* for a content gives the hash of the content twice and the content
\* itself, for every project id and every content.
C2_RoundTrip ==
    cpc = "dec" =>
        cdec = [err |-> "none",
                marker_hash |-> string_hash(cdata),
                dst_hash |-> string_hash(cdata),
                dstdata |-> cdata]

\* C3 (as claimed): once a pull, a push or a marker refresh has been done
\* for a pair, the hash in the destination's marker, the hash of the source
\* and the hash of the destination's body are equal.
C3_PostSyncConsistent ==
    \A p \in FilePaths :
        (InLoop /\ acted[p].act \in {"pull", "push", "refresh"}) =>
            LET info == get_dst_file_info(dstFiles[p]) IN
            /\ DstIsFile(p)
            /\ info.err = "none"
            /\ info.marker_hash = string_hash(srcFiles[p])
            /\ info.dst_hash = string_hash(srcFiles[p])

\* C4 (as claimed, for the modes that write): a pair whose destination
\* file did not exist has, after its turn in PULL, FULL or FORCE mode, a
\* destination file whose decoded body is the source content and whose
\* marker hash is the hash of the source content.
C4_ForwardPull ==
    \A p \in FilePaths :
        (/\ InLoop
         /\ mode \in {"PULL", "FULL", "FORCE"}
         /\ acted[p].act # "none"
         /\ ~acted[p].existed) =>
            LET info == get_dst_file_info(dstFiles[p]) IN
            /\ DstIsFile(p)
            /\ info.err = "none"
            /\ info.dstdata = srcFiles[p]
            /\ info.marker_hash = string_hash(srcFiles[p])

\* C5: in PULL and FULL mode a pair whose source hash, destination hash and
\* marker hash are mutually different ends the call with the diverged
\* error, and the call has written neither file of the pair.
C5_ConflictRaisesNoWrite ==
    \A p \in FilePaths :
        (/\ pc # "idle"
         /\ mode \in {"PULL", "FULL"}
         /\ ThreeDifferent(acted[p])) =>
            /\ pc = "raised"
            /\ err = "RuntimeError:diverged"
            /\ ~Written(p)
            /\ acted[p].src_hash = string_hash(srcFiles[p])
            /\ get_dst_file_info(dstFiles[p]).dst_hash = acted[p].dst_hash
            /\ get_dst_file_info(dstFiles[p]).marker_hash
                   = acted[p].marker_hash

C5_Witness ==
    \E p \in FilePaths :
        /\ mode = "FULL"
        /\ pc = "raised"
        /\ err = "RuntimeError:diverged"
        /\ ThreeDifferent(acted[p])

\* C6: in PULL, FULL and LIST mode alike, a diverged pair raises in its own
\* turn of the loop: the loop does not go past it, the pair is not put on
\* the list of pending conflicts and the branch taken is the raise.
C6_DivergedRaisesAtOnce ==
    \A p \in FilePaths :
        (/\ pc # "idle"
         /\ mode \in {"PULL", "FULL", "LIST"}
         /\ ThreeDifferent(acted[p])) =>
            /\ pc = "raised"
            /\ err = "RuntimeError:diverged"
            /\ acted[p].act = "diverged"
            /\ idx <= Len(allpaths)
            /\ allpaths[idx] = p
            /\ p \notin Range(changed)

C6_Witness ==
    \E p \in FilePaths :
        /\ mode = "LIST"
        /\ pc = "raised"
        /\ err = "RuntimeError:diverged"
        /\ ThreeDifferent(acted[p])
        /\ allpaths[idx] = p

\* C7 (as claimed): a call in LIST mode modifies nothing: it writes no
\* file, makes no directory and removes nothing.
C7_ListDryRun == mode = "LIST" => writes = {}

\* C8: when a PULL call raises the aggregate error, every pair of the walk
\* has had its turn, each pair that is not a pending conflict carries a
\* marker with the hash of its source (pulled and refreshed ones hold
\* add_marker of the source), and nothing is left to prune.
C8_ConflictsReportedLast ==
    (mode = "PULL" /\ pc = "raised" /\ err = "RuntimeError:changed") =>
        /\ \A i \in 1..Len(allpaths) :
              LET p == allpaths[i] IN
              /\ acted[p].act \in {"pull", "refresh", "noop", "pending"}
              /\ acted[p].act \in {"pull", "refresh"} =>
                    /\ Written(p)
                    /\ dstFiles[p] = add_marker(proj, srcFiles[p]).val
              /\ acted[p].act # "pending" =>
                    get_dst_file_info(dstFiles[p]).marker_hash
                        = string_hash(srcFiles[p])
        /\ KillPaths = {}

C8_Witness ==
    /\ mode = "PULL"
    /\ pc = "raised"
    /\ err = "RuntimeError:changed"
    /\ Len(allpaths) = 2
    /\ acted[allpaths[1]].act = "pending"
    /\ acted[allpaths[2]].act = "pull"

\* C9: a PULL call that reaches its end raises the aggregate error exactly
\* when some pair had a source hash equal to the marker hash and a
\* destination hash different from it; changed_error_dst_files holds
\* exactly those pairs, once each, and the call wrote neither file of any
\* of them.
C9_AggregateReport ==
    (/\ mode = "PULL"
     /\ \/ pc = "returned"
        \/ pc = "raised" /\ err = "RuntimeError:changed") =>
        LET S == {p \in FilePaths : DstChangedOnly(acted[p])} IN
        /\ (err = "RuntimeError:changed") <=> (S # {})
        /\ Range(changed) = S
        /\ Len(changed) = Cardinality(S)
        /\ \A p \in S : ~Written(p)

C9_Witness ==
    /\ mode = "PULL"
    /\ pc = "raised"
    /\ err = "RuntimeError:changed"
    /\ \E p \in FilePaths : DstChangedOnly(acted[p]) /\ p \in Range(changed)

\* C10 (as claimed): in LIST mode a pair of which dst changed and src did
\* not is recorded as a pending conflict, nothing is written for it, and
\* the call ends with the aggregate error.
C10_ListPendingConflict ==
    \A p \in FilePaths :
        (pc # "idle" /\ mode = "LIST" /\ DstChangedOnly(acted[p])) =>
            /\ ~Written(p)
            /\ p \in Range(changed)
            /\ pc \in {"returned", "raised"} => err = "RuntimeError:changed"

\* C10 (amended): in LIST mode a pair of which dst changed and src did not
\* is reported as a push that would be made: nothing is written for it, it
\* is not recorded as a pending conflict, and the call never ends with the
\* aggregate error.
C10_ListWouldPush ==
    \A p \in FilePaths :
        (pc # "idle" /\ mode = "LIST" /\ DstChangedOnly(acted[p])) =>
            /\ acted[p].act = "would_push"
            /\ ~Written(p)
            /\ changed = <<>>
            /\ err # "RuntimeError:changed"

C10_Witness ==
    /\ mode = "LIST"
    /\ pc = "returned"
    /\ \E p \in FilePaths : DstChangedOnly(acted[p])

\* The running call raised in the turn of the pair p.
RaisedAt(p) == pc = "raised" /\ idx <= Len(allpaths) /\ allpaths[idx] = p

\* add_marker accepts the content the source file p holds.
Accepts(p) == add_marker(proj, srcFiles[p]).err = "none"

\* The source file p holds what it held when the pair had its turn.
SrcKept(p) ==
    /\ Wr("write", "src", p) \notin writes
    /\ string_hash(srcFiles[p]) = acted[p].src_hash

\* C11 (as claimed): in FULL mode, a pair with source hash = marker hash and
\* destination hash # marker hash has its source file overwritten with the
\* destination body, its destination rewritten with a marker hash equal to
\* the hash of that body and with the body unchanged, and the call does not
\* raise for the pair.
C11_FullPush ==
    \A p \in FilePaths :
        (pc # "idle" /\ mode = "FULL" /\ DstChangedOnly(acted[p])) =>
            LET info == get_dst_file_info(dstFiles[p]) IN
            /\ string_hash(srcFiles[p]) = acted[p].dst_hash
            /\ info.err = "none"
            /\ info.marker_hash = acted[p].dst_hash
            /\ info.dst_hash = acted[p].dst_hash
            /\ ~RaisedAt(p)

\* C11 (amended): in FULL mode, such a pair is pushed: its source file is
\* overwritten with the decoded destination body; when add_marker accepts
\* that body the destination becomes add_marker of it (marker hash = hash
\* of the body, decoded body unchanged) and the call does not raise for the
\* pair; when add_marker refuses it the call raises the already-synced
\* error in the pair's turn.
C11_FullPushUnlessRefused ==
    \A p \in FilePaths :
        (pc # "idle" /\ mode = "FULL" /\ DstChangedOnly(acted[p])) =>
            LET info == get_dst_file_info(dstFiles[p]) IN
            /\ acted[p].act = "push"
            /\ Wr("write", "src", p) \in writes
            /\ string_hash(srcFiles[p]) = acted[p].dst_hash
            /\ IF Accepts(p)
               THEN /\ dstFiles[p] = add_marker(proj, srcFiles[p]).val
                    /\ info.err = "none"
                    /\ info.marker_hash = acted[p].dst_hash
                    /\ info.dst_hash = acted[p].dst_hash
                    /\ info.dstdata = srcFiles[p]
                    /\ ~RaisedAt(p)
               ELSE /\ RaisedAt(p)
                    /\ err = "RuntimeError:already_synced"

C11_Witness ==
    /\ mode = "FULL"
    /\ pc = "returned"
    /\ \E p \in FilePaths :
          /\ DstChangedOnly(acted[p])
          /\ acted[p].act = "push"
          /\ Accepts(p)
          /\ dstFiles[p] = add_marker(proj, srcFiles[p]).val

\* A decoded pair of which src changed and dst did not.
SrcChangedOnly(r) ==
    r.decoded /\ r.src_hash # r.marker_hash /\ r.dst_hash = r.marker_hash

\* C12 (as claimed): in PULL and FULL mode, a pair with source hash # marker
\* hash and destination hash = marker hash has its destination overwritten
\* with the source content under a marker that holds the hash of the
\* source, the source file is not written, and the call does not raise for
\* the pair.
C12_PullOnSourceChange ==
    \A p \in FilePaths :
        (pc # "idle" /\ mode \in {"PULL", "FULL"}
            /\ SrcChangedOnly(acted[p])) =>
            /\ SrcKept(p)
            /\ Accepts(p)
            /\ dstFiles[p] = add_marker(proj, srcFiles[p]).val
            /\ get_dst_file_info(dstFiles[p]).marker_hash = acted[p].src_hash
            /\ ~RaisedAt(p)

\* C12 (amended): in PULL and FULL mode, such a pair is pulled and its
\* source file is never written; when add_marker accepts the source content
\* the destination becomes add_marker of it, with a marker that holds the
\* hash of the source, and the call does not raise for the pair; when
\* add_marker refuses it the call raises the already-synced error in the
\* pair's turn.
C12_PullUnlessRefused ==
    \A p \in FilePaths :
        (pc # "idle" /\ mode \in {"PULL", "FULL"}
            /\ SrcChangedOnly(acted[p])) =>
            /\ acted[p].act = "pull"
            /\ SrcKept(p)
            /\ IF Accepts(p)
               THEN /\ dstFiles[p] = add_marker(proj, srcFiles[p]).val
                    /\ get_dst_file_info(dstFiles[p]).marker_hash
                           = acted[p].src_hash
                    /\ ~RaisedAt(p)
               ELSE /\ RaisedAt(p)
                    /\ err = "RuntimeError:already_synced"

C12_Witness ==
    /\ mode = "PULL"
    /\ pc = "returned"
    /\ \E p \in FilePaths :
          /\ SrcChangedOnly(acted[p])
          /\ acted[p].act = "pull"
          /\ dstFiles[p] = add_marker(proj, srcFiles[p]).val

\* A decoded pair whose source and destination hold the same content, which
\* is not the content the marker names.
ChangedAlike(r) ==
    /\ r.decoded
    /\ r.marker_hash \notin {r.src_hash, r.dst_hash}
    /\ r.src_hash = r.dst_hash

\* C13 (as claimed): in PULL, FULL and LIST mode, a pair whose marker hash
\* equals neither the source hash nor the destination hash while these two
\* are equal has its destination marker rewritten to the common hash, its
\* destination body and its source file are unchanged, and the call does
\* not raise.
C13_ConvergentRefresh ==
    \A p \in FilePaths :
        (pc # "idle" /\ mode \in {"PULL", "FULL", "LIST"}
            /\ ChangedAlike(acted[p])) =>
            LET info == get_dst_file_info(dstFiles[p]) IN
            /\ info.err = "none"
            /\ info.marker_hash = acted[p].src_hash
            /\ info.dst_hash = acted[p].dst_hash
            /\ SrcKept(p)
            /\ ~RaisedAt(p)

\* C13 (amended): for such a pair the source file is never written; in PULL
\* and FULL mode the destination is rewritten as add_marker of the source
\* content when add_marker accepts it (marker = the common hash, decoded
\* body unchanged, no raise for the pair) and the call raises the
\* already-synced error when add_marker refuses it; in LIST mode the
\* refresh is only reported and the destination keeps its old marker.
C13_RefreshUnlessListOrRefused ==
    \A p \in FilePaths :
        (pc # "idle" /\ mode \in {"PULL", "FULL", "LIST"}
            /\ ChangedAlike(acted[p])) =>
            LET info == get_dst_file_info(dstFiles[p]) IN
            /\ SrcKept(p)
            /\ IF mode = "LIST"
               THEN /\ acted[p].act = "would_refresh"
                    /\ ~Written(p)
                    /\ info.marker_hash = acted[p].marker_hash
                    /\ info.dst_hash = acted[p].dst_hash
                    /\ ~RaisedAt(p)
               ELSE /\ acted[p].act = "refresh"
                    /\ IF Accepts(p)
                       THEN /\ dstFiles[p]
                                  = add_marker(proj, srcFiles[p]).val
                            /\ info.marker_hash = acted[p].src_hash
                            /\ info.dst_hash = acted[p].dst_hash
                            /\ ~RaisedAt(p)
                       ELSE /\ RaisedAt(p)
                            /\ err = "RuntimeError:already_synced"

C13_Witness ==
    /\ mode = "PULL"
    /\ pc = "returned"
    /\ \E p \in FilePaths :
          /\ ChangedAlike(acted[p])
          /\ acted[p].act = "refresh"
          /\ get_dst_file_info(dstFiles[p]).marker_hash = acted[p].src_hash

\* The errors of a destination that cannot be decoded, of a diverged pair
\* and of the pending conflicts.
DecodeErrors == {"ValueError", "IndexError"}
ComparisonErrors ==
    DecodeErrors \cup {"RuntimeError:diverged", "RuntimeError:changed"}

\* C14 (as claimed): when a call in FORCE mode has ended, the destination
\* file of every pair of the walk equals add_marker of the source content,
\* whatever the destination held, and the call has raised neither a decode
\* error, the diverged error nor the aggregate error.
C14_ForceOverwrite ==
    (mode = "FORCE" /\ pc \in {"returned", "raised"}) =>
        /\ \A p \in Range(allpaths) :
              /\ Accepts(p)
              /\ dstFiles[p] = add_marker(proj, srcFiles[p]).val
        /\ err \notin ComparisonErrors

\* C14 (amended): in FORCE mode every pair that has its turn is pulled
\* without its destination being decoded and without the source file being
\* written: the destination becomes add_marker of the source content when
\* add_marker accepts it, and the call raises the already-synced error in
\* the pair's turn when add_marker refuses it; a call that returns has done
\* so for every pair of the walk; the call raises neither a decode error,
\* the diverged error nor the aggregate error.
C14_ForceOverwriteUnlessRefused ==
    mode = "FORCE" =>
        /\ \A p \in FilePaths :
              (pc # "idle" /\ acted[p].act # "none") =>
                  /\ acted[p].act = "pull"
                  /\ ~acted[p].decoded
                  /\ Rd("dst", p) \notin reads
                  /\ SrcKept(p)
                  /\ IF Accepts(p)
                     THEN /\ dstFiles[p] = add_marker(proj, srcFiles[p]).val
                          /\ ~RaisedAt(p)
                     ELSE /\ RaisedAt(p)
                          /\ err = "RuntimeError:already_synced"
        /\ pc = "returned" =>
              \A p \in Range(allpaths) :
                  dstFiles[p] = add_marker(proj, srcFiles[p]).val
        /\ err \notin ComparisonErrors
        /\ changed = <<>>

C14_Witness ==
    /\ mode = "FORCE"
    /\ pc = "returned"
    /\ Len(allpaths) = 2
    /\ \E p \in Range(allpaths) :
          /\ acted[p].existed
          /\ dstFiles[p] = add_marker(proj, srcFiles[p]).val

\* C19: sync_paths writes a source file only in FULL mode and only for a
\* pair with source hash = marker hash and destination hash # marker hash;
\* in PULL, LIST and FORCE mode, and for every other pair in FULL mode, the
\* source tree stays as it was when the call started, pruning included.
C19_SourceFrame ==
    pc # "idle" =>
        /\ srcDirs = start.srcDirs
        /\ \A p \in FilePaths :
              srcFiles[p] # start.srcFiles[p] =>
                  /\ mode = "FULL"
                  /\ DstChangedOnly(acted[p])
                  /\ acted[p].act = "push"
        /\ \A w \in writes :
              w.tree = "src" =>
                  /\ w.op = "write"
                  /\ mode = "FULL"
                  /\ DstChangedOnly(acted[w.path])

C19_Witness ==
    /\ mode = "FULL"
    /\ pc = "returned"
    /\ \E p, q \in FilePaths :
          /\ srcFiles[p] # start.srcFiles[p]
          /\ Wr("write", "src", p) \in writes
          /\ acted[q].act = "pull"
          /\ srcFiles[q] = start.srcFiles[q]

\* C20: once a call meets a diverged pair it ends there with the diverged
\* error: no later pair of the walk is read or written, nothing is pruned,
\* the pending conflicts noted before it are not reported, and the only
\* changes of the two trees are the writes made for earlier pairs.
C20_DivergenceAborts ==
    \A p \in FilePaths :
        (pc # "idle" /\ ThreeDifferent(acted[p])) =>
            /\ RaisedAt(p)
            /\ err = "RuntimeError:diverged"
            /\ \A j \in (idx + 1)..Len(allpaths) :
                  LET q == allpaths[j] IN
                  /\ acted[q] = NotExamined
                  /\ Rd("src", q) \notin reads
                  /\ Rd("dst", q) \notin reads
            /\ pruned = NoPrune
            /\ \A w \in writes :
                  /\ w.op # "remove"
                  /\ w.op = "write" =>
                        \E i \in 1..(idx - 1) : allpaths[i] = w.path
                  /\ w.op = "mkdir" =>
                        \E i \in 1..(idx - 1) :
                            w.path \in Ancestors(allpaths[i])
            /\ \A q \in FilePaths :
                  (\A i \in 1..(idx - 1) : allpaths[i] # q) =>
                      /\ srcFiles[q] = start.srcFiles[q]
                      /\ dstFiles[q] = start.dstFiles[q]
            /\ srcDirs = start.srcDirs
            /\ start.dstDirs \subseteq dstDirs
            /\ \A d \in dstDirs \ start.dstDirs :
                  \E i \in 1..(idx - 1) : d \in Ancestors(allpaths[i])

C20_Witness ==
    /\ pc = "raised"
    /\ err = "RuntimeError:diverged"
    /\ Len(allpaths) = 2
    /\ idx = 1
    /\ ThreeDifferent(acted[allpaths[1]])
    /\ ~DstIsFile(allpaths[2])

\* The entries dst held when the running call started.
StartEntries ==
    (start.dstDirs \ {D_root})
        \cup {p \in FilePaths : start.dstFiles[p] # NoFile}

\* The entry e is still in the destination tree.
DstHas(e) == e \in dstDirs \/ (e \in FilePaths /\ DstIsFile(e))

\* The running call has gone through the pruning of lines 200-224.
PastPruning ==
    \/ pc \in {"final", "returned"}
    \/ pc = "raised" /\ err = "RuntimeError:changed"

\* A file dst held at the start, with a root directory, of which the
\* source path does not exist.
OrphanFile(p) ==
    /\ D_root \in start.dstDirs
    /\ start.dstFiles[p] # NoFile
    /\ ~SrcExists(p)

\* C15 (as claimed): when the destination root is a directory, a
\* destination file whose source path does not exist is absent after a
\* PULL, FULL or FORCE call that returns, and is reported but still present
\* after a LIST call that returns.
C15_OrphanRemoval ==
    (pc = "returned" /\ mode \in {"PULL", "FULL", "FORCE", "LIST"}) =>
        \A p \in FilePaths :
            OrphanFile(p) =>
                IF mode = "LIST"
                THEN p \in pruned.listed /\ DstIsFile(p)
                ELSE ~DstIsFile(p)

\* C15 (amended): when the destination root is a directory, a destination
\* file whose source path does not exist and which the pruning loop does
\* not pass over (its name does not start with a dot, no __pycache__ in
\* its name or in the path of its directory) is absent once a PULL, FULL or
\* FORCE call has gone through its pruning, and is reported but unchanged
\* once a LIST call has.
C15_OrphanRemovalUnlessExempt ==
    (PastPruning /\ mode \in {"PULL", "FULL", "FORCE", "LIST"}) =>
        \A p \in FilePaths :
            (OrphanFile(p) /\ ~PruneExempt(p)) =>
                IF mode = "LIST"
                THEN /\ p \in pruned.listed
                     /\ dstFiles[p] = start.dstFiles[p]
                ELSE /\ ~DstIsFile(p)
                     /\ p \in pruned.removed

C15_Witness ==
    /\ mode = "PULL"
    /\ pc = "returned"
    /\ \E p \in FilePaths :
          /\ OrphanFile(p)
          /\ ~PruneExempt(p)
          /\ p \in pruned.listed
          /\ ~DstIsFile(p)
          /\ Parent(p) \in dstDirs

\* An entry whose name starts with a dot, or which is or lies inside a
\* directory named __pycache__.
HiddenOrCache(e) ==
    \/ Basename(e)[1] = "."
    \/ \E i \in 1..Len(e) : e[i] = N_pycache

\* C16 (as claimed): pruning never removes a destination entry whose name
\* starts with a dot, nor one that is or lies inside a __pycache__
\* directory, whether or not it lies under a directory that is pruned.
C16_ExemptNeverRemoved ==
    \A e \in StartEntries :
        (pc # "idle" /\ HiddenOrCache(e)) => DstHas(e)

\* The directories above e that have no source path and are neither
\* hidden nor cache entries themselves.
OrphanDirsAbove(e) ==
    {d \in Ancestors(e) \ {D_root} : ~HiddenOrCache(d) /\ ~SrcExists(d)}

\* C16 (amended): the pruning loop never lists an entry whose name starts
\* with a dot, nor one that is or lies inside a __pycache__ directory; such
\* an entry stays when every directory above it stays, and is removed, with
\* the whole subtree, when the loop removes a directory above it.
C16_ExemptUnlessUnderPruned ==
    pc # "idle" =>
        /\ \A q \in pruned.listed : ~HiddenOrCache(q)
        /\ \A e \in StartEntries :
              HiddenOrCache(e) =>
                  /\ OrphanDirsAbove(e) = {} => DstHas(e)
                  /\ e \in pruned.removed =>
                        \E q \in pruned.listed : IsProperPrefix(q, e)
                  /\ (PastPruning /\ mode # "LIST"
                         /\ OrphanDirsAbove(e) # {}
                         /\ D_root \in start.dstDirs) =>
                        ~DstHas(e) /\ e \in pruned.removed

C16_Witness ==
    /\ mode = "PULL"
    /\ pc = "returned"
    /\ pruned.removed # {}
    /\ \E e \in StartEntries :
          /\ HiddenOrCache(e)
          /\ ~SrcExists(e)
          /\ DstHas(e)

\* A call of check_path is running or has ended.
InCheck == pc \in {"check", "check_returned", "check_raised"}

\* C17: check_path writes, makes and removes nothing, whether it returns
\* or raises: both trees stay as they were when it started; and it reads
\* files of the destination tree only.
C17_CheckPurity ==
    InCheck =>
        /\ writes = {}
        /\ Trees(srcDirs, srcFiles, dstDirs, dstFiles) = start
        /\ \A r \in reads : r.tree = "dst" /\ start.dstFiles[r.path] # NoFile

C17_Witness ==
    /\ pc = "check_raised"
    /\ err = "RuntimeError:check_changed"
    /\ Cardinality(reads) = 2
    /\ \E p \in FilePaths : SrcIsFile(p) /\ acted[p].act = "mismatch"

\* C18 (as claimed, for the files a sync has left): a file that holds
\* exactly what add_marker returned for some content never makes
\* check_path raise.
C18_UnchangedPasses ==
    \A p \in FilePaths :
        (pc = "check_raised" /\ allpaths[idx] = p) =>
            \A sp \in Projects, c \in Contents :
                dstFiles[p] # add_marker(sp, c).val

MarkerOnSecondLine(s) ==
    \E k \in 1..(Len(s) - 1) :
        /\ s[k] = KEY
        /\ s[k + 1] = EQ
        /\ Cardinality({j \in 1..(k - 1) : s[j] \in LineBreaks}) = 1

\* The tokens KEY EQ stand in s before any line boundary.
MarkerOnFirstLine(s) ==
    \E k \in 1..(Len(s) - 1) :
        /\ s[k] = KEY
        /\ s[k + 1] = EQ
        /\ \A j \in 1..(k - 1) : s[j] \notin LineBreaks

\* The three header lines add_marker puts before a content.
HeaderLines(sp, data) ==
    << <<"# Synced from ">> \o sp \o <<".">>,
       <<"# ", KEY, EQ>> \o string_hash(data),
       <<"#">> >>

\* C23 (as claimed): add_marker raises exactly when one of the first two
\* lines of the content holds EFRO_SYNC_HASH=.
C23_EncodeRefusal ==
    cpc = "enc" =>
        (cenc.err = "RuntimeError")
            <=> (MarkerOnFirstLine(cdata) \/ MarkerOnSecondLine(cdata))

\* C23 (amended): add_marker raises exactly when the second line of the
\* content holds EFRO_SYNC_HASH= (a marker on the first line is accepted);
\* otherwise it returns the three header lines, with the hash of the
\* content, followed by the lines of the content and a final newline.
C23_RefusesSecondLineOnly ==
    cpc = "enc" =>
        IF MarkerOnSecondLine(cdata)
        THEN cenc.err = "RuntimeError"
        ELSE /\ cenc.err = "none"
             /\ splitlines(cenc.val)
                    = HeaderLines(cproj, cdata) \o splitlines(cdata)
             /\ cenc.val[Len(cenc.val)] = NL

C23_Witness ==
    /\ cpc = "enc"
    /\ MarkerOnFirstLine(cdata)
    /\ ~MarkerOnSecondLine(cdata)
    /\ Len(splitlines(cdata)) = 2
    /\ cenc.err = "none"

\* A call of sync_paths is running or has ended, in a mode that compares
\* hashes.
InComparingRun ==
    pc \in {"walk", "final", "returned", "raised"}
        /\ mode \in {"PULL", "FULL", "LIST"}

\* The destination file p held, when the call started, a text
\* get_dst_file_info cannot decode.
Malformed(p) ==
    /\ start.dstFiles[p] # NoFile
    /\ get_dst_file_info(start.dstFiles[p]).err # "none"

\* C22: in PULL, FULL and LIST mode a destination file that cannot be
\* decoded makes the call raise in the turn of its pair, with the decode
\* error, and neither the destination file nor the source file is
\* modified; a FORCE call replaces the file by add_marker of the source
\* content (when add_marker accepts it).
C22_MalformedDestination ==
    \A p \in FilePaths :
        (pc \in {"walk", "final", "returned", "raised"}
            /\ acted[p].act # "none" /\ Malformed(p)) =>
            IF mode = "FORCE"
            THEN /\ acted[p].act = "pull"
                 /\ Accepts(p) =>
                       dstFiles[p] = add_marker(proj, srcFiles[p]).val
            ELSE /\ acted[p].act = "decode_error"
                 /\ RaisedAt(p)
                 /\ err \in DecodeErrors
                 /\ ~Written(p)
                 /\ dstFiles[p] = start.dstFiles[p]
                 /\ srcFiles[p] = start.srcFiles[p]

C22_Witness ==
    /\ mode = "FULL"
    /\ pc = "raised"
    /\ err = "IndexError"
    /\ \E p \in FilePaths :
          /\ Malformed(p)
          /\ RaisedAt(p)
          /\ dstFiles[p] = <<"x=1", NL>>

\* C26: for a decoded pair in PULL, FULL or LIST mode exactly one of five
\* cases holds of the three hashes, the branch taken is the one of that
\* case (pull; push, would-push or pending conflict; marker refresh;
\* divergence; nothing), nothing is done exactly when the three hashes are
\* equal, and the assert of line 198 never fails.
C26_CaseAnalysis ==
    /\ err # "AssertionError"
    /\ \A p \in FilePaths :
          (InComparingRun /\ acted[p].decoded) =>
              LET h == acted[p]
                  srcOnly == h.src_hash # h.marker_hash
                                /\ h.dst_hash = h.marker_hash
                  dstOnly == h.src_hash = h.marker_hash
                                /\ h.dst_hash # h.marker_hash
                  alike == h.marker_hash \notin {h.src_hash, h.dst_hash}
                              /\ h.src_hash = h.dst_hash
                  apart == h.marker_hash \notin {h.src_hash, h.dst_hash}
                              /\ h.src_hash # h.dst_hash
                  same == h.src_hash = h.marker_hash
                             /\ h.dst_hash = h.marker_hash
                  cases == <<srcOnly, dstOnly, alike, apart, same>>
              IN
              /\ Cardinality({i \in 1..5 : cases[i]}) = 1
              /\ h.act \in {"pull", "would_pull"} <=> srcOnly
              /\ h.act \in {"push", "would_push", "pending"} <=> dstOnly
              /\ h.act \in {"refresh", "would_refresh"} <=> alike
              /\ h.act = "diverged" <=> apart
              /\ h.act = "noop" <=> same

C26_Witness ==
    /\ mode = "PULL"
    /\ pc = "returned"
    /\ \E p, q \in FilePaths :
          /\ acted[p].decoded
          /\ acted[p].act = "noop"
          /\ acted[p].src_hash = acted[p].dst_hash
          /\ acted[q].decoded
          /\ acted[q].act = "refresh"

\* C27 (as claimed): when a call of sync_paths in PULL, FULL or FORCE mode
\* over two directories has returned, every eligible file under the
\* destination root carries a marker whose hash is the hash of its body,
\* so that check_path on the destination root returns.
C27_SyncThenVerify ==
    (pc = "returned" /\ mode \in {"PULL", "FULL", "FORCE"}) =>
        \A p \in CheckEligible :
            CheckOutcome(get_dst_file_info(dstFiles[p])) = "checked"

\* C30 (as claimed, for the destination file): a pull or a refresh of a
\* source file that add_marker refuses raises instead of writing the
\* destination: the destination file of the pair is as it was when the
\* call started.
C30_RefusedWritesNothing ==
    \A p \in FilePaths :
        (/\ RaisedAt(p)
         /\ err = "RuntimeError:already_synced"
         /\ acted[p].act \in {"pull", "refresh"}) =>
            dstFiles[p] = start.dstFiles[p]

\* A call of sync_paths has been made and is running or has ended.
AfterCall == pc \in {"walk", "final", "returned", "raised"}

\* The source path of the call was, when the call started, neither a
\* directory nor a file.
SrcMissing ==
    /\ target \notin start.srcDirs
    /\ ~(target \in FilePaths /\ start.srcFiles[target] # NoFile)

\* The source path of the call was a single file with a name outside the
\* syncable ones: not one of the listed names, not ending in .py or .pyi,
\* or holding flycheck_.
SrcSingleIneligible ==
    /\ target \in FilePaths
    /\ start.srcFiles[target] # NoFile
    /\ LET name == Basename(target) IN
         /\ name \notin AllowedNames
         /\ \/ name[Len(name)] \notin {".py", ".pyi"}
            \/ HasChunk(name, "flycheck_")

\* Both trees are as they were when the call started.
TreesUntouched == Trees(srcDirs, srcFiles, dstDirs, dstFiles) = start

\* C24: a call of sync_paths on a source path that is neither a file nor a
\* directory, on a single file that fails the eligibility predicate, or in
\* CHECK mode, raises the invalid-input error (ValueError) with no pair
\* taken up, nothing read, nothing written, no directory made and both
\* trees as they were.
C24_InvalidInput ==
    (AfterCall /\ (mode = "CHECK" \/ SrcMissing \/ SrcSingleIneligible))
        => /\ pc = "raised"
           /\ err = "ValueError"
           /\ allpaths = <<>>
           /\ writes = {}
           /\ reads = {}
           /\ TreesUntouched

\* A call in FULL mode on the single file notes.txt, which the source
\* holds and a destination directory does not, has been turned down.
C24_Witness ==
    /\ pc = "raised"
    /\ err = "ValueError"
    /\ mode = "FULL"
    /\ target = P_n
    /\ SrcSingleIneligible
    /\ D_root \in dstDirs
    /\ dstFiles[P_n] = NoFile

\* The name of the file p is a syncable one: a listed name, or one ending
\* in .py or .pyi that does not hold flycheck_.
SyncableName(p) ==
    LET name == Basename(p) IN
    \/ name \in AllowedNames
    \/ name[Len(name)] \in {".py", ".pyi"} /\ ~HasChunk(name, "flycheck_")

\* The files with a syncable name that the source held under the source
\* path when the call started.
SyncableUnderTarget ==
    {p \in FilePaths :
        /\ start.srcFiles[p] # NoFile
        /\ IsPrefix(target, p)
        /\ SyncableName(p)}

\* C25: for a call on a directory of the source, the pairs of the call are
\* exactly the files under that directory with a syncable name, each once
\* and each with the same path relative to the two roots; no other file
\* is read, written or examined; and a call that returns returns the
\* number of these pairs, whatever the mode and whatever each pair
\* received.
C25_DiscoveryAndCount ==
    (AfterCall /\ mode # "CHECK" /\ target \in start.srcDirs)
        => /\ Range(allpaths) = SyncableUnderTarget
           /\ Len(allpaths) = Cardinality(SyncableUnderTarget)
           /\ \A p \in FilePaths \ SyncableUnderTarget :
                 /\ acted[p] = NotExamined
                 /\ \A w \in writes : w.op = "write" => w.path # p
                 /\ \A rd \in reads : rd.path # p
           /\ pc = "returned" => result = Cardinality(SyncableUnderTarget)

\* A call in LIST mode on the roots has returned 2 for a source holding
\* a.py, d/b.py and notes.txt, of which a.py was to be pulled and d/b.py
\* needed nothing.
C25_Witness ==
    /\ pc = "returned"
    /\ mode = "LIST"
    /\ target = D_root
    /\ start.srcFiles[P_n] # NoFile
    /\ result = 2
    /\ acted[P_a].act = "would_pull"
    /\ acted[P_b].act = "noop"

\* The source held, when the call started, a file or a directory at the
\* path the destination entry e has relative to the roots.
Mirrored(e) ==
    e \in start.srcDirs \/ (e \in FilePaths /\ start.srcFiles[e] # NoFile)

\* C29: the pruning of a call removes, and in LIST mode names, no
\* destination file or directory of which the source path exists, syncable
\* or not: every such entry the destination held when the call started is
\* still there, and so is every file the call has pulled, pushed or
\* refreshed.
C29_PruningKeepsMirrored ==
    AfterCall
        => /\ \A e \in pruned.removed \cup pruned.listed : ~Mirrored(e)
           /\ \A e \in StartEntries : Mirrored(e) => DstHas(e)
           /\ PastPruning
                 => \A p \in FilePaths :
                      acted[p].act \in {"pull", "push", "refresh"}
                          => DstIsFile(p)

\* A call in FULL mode on the roots has pulled a.py into a destination that
\* lacked it, then removed the orphan directory d with d/b.py, and has kept
\* notes.txt, which the source holds too but which is not syncable.
C29_Witness ==
    /\ PastPruning
    /\ mode = "FULL"
    /\ target = D_root
    /\ acted[P_a].act = "pull"
    /\ start.dstFiles[P_a] = NoFile
    /\ DstIsFile(P_a)
    /\ {D_d, P_b} \subseteq pruned.removed
    /\ start.srcFiles[P_n] # NoFile
    /\ start.dstFiles[P_n] # NoFile
    /\ DstIsFile(P_n)

\* A call in FULL mode has ended that came right after a call in LIST mode
\* on the same trees and the same paths, and that walked the pairs in the
\* same order.
FullAfterList ==
    /\ pc \in {"returned", "raised"}
    /\ mode = "FULL"
    /\ last.listed
    /\ last.allpaths = allpaths

\* What a call in LIST mode prints for the action a of a call in FULL mode.
Preview(a) ==
    CASE a = "pull" -> "would_pull"
      [] a = "push" -> "would_push"
      [] a = "refresh" -> "would_refresh"
      [] OTHER -> a

\* C28 (as claimed): on the same trees, the files a call in LIST mode
\* reports as would-pull, would-push or would-update-hash are the files for
\* which a call in FULL mode goes into a pull, a push or a marker refresh,
\* and the call in LIST mode raises the divergence error exactly when the
\* call in FULL mode does.
C28_ListPreviewsFull ==
    FullAfterList
        => /\ {p \in FilePaths :
                  last.acted[p].act
                      \in {"would_pull", "would_push", "would_refresh"}}
                = {p \in FilePaths :
                      acted[p].act \in {"pull", "push", "refresh"}}
           /\ (last.err = "RuntimeError:diverged")
                <=> (err = "RuntimeError:diverged")

\* C28 (amended): on the same trees, a call in LIST mode reports every pair
\* the call in FULL mode takes up as what the call in FULL mode goes into
\* for it (would-pull for a pull, would-push for a push, would-update-hash
\* for a refresh, nothing for a healthy pair, the same error for a pair it
\* cannot decode or that has diverged). When add_marker refuses no content,
\* the two calls take up the same pairs and end alike: the reported files
\* are the pulled, pushed and refreshed ones and both calls raise the
\* divergence error or neither does. When add_marker refuses the content
\* of a pair, the call in FULL mode ends there, while the call in LIST
\* mode has reported that pair and has gone on to the pairs after it.
C28_ListPreviewsFullUntilRefused ==
    FullAfterList
        => /\ \A p \in FilePaths :
                 acted[p].act # "none"
                     => last.acted[p].act = Preview(acted[p].act)
           /\ err # "RuntimeError:already_synced"
                 => /\ \A p \in FilePaths :
                          last.acted[p].act = Preview(acted[p].act)
                    /\ last.err = err
           /\ err = "RuntimeError:already_synced"
                 => /\ last.acted[allpaths[idx]].act
                          \in {"would_pull", "would_push", "would_refresh"}
                    /\ \A i \in 1..idx :
                          last.acted[allpaths[i]].act
                              \notin {"none", "diverged", "decode_error"}

\* After a call in LIST mode that reported a.py as would-pull and d/b.py as
\* would-pull, the call in FULL mode has pulled both and returned.
C28_Witness ==
    /\ FullAfterList
    /\ pc = "returned"
    /\ last.acted[P_a].act = "would_pull"
    /\ last.acted[P_b].act = "would_pull"
    /\ acted[P_a].act = "pull"
    /\ acted[P_b].act = "pull"
    /\ Written(P_a)
    /\ Written(P_b)

\* The step is a call of the operation op on the controller.
CallOf(op) == scall' # scall /\ scall'.op = op

\* The chat message and the quit timer of a shutdown.
Quits(eff) == Count(eff, "timer_quit")
Chats(eff) == Count(eff, "chat_message")

\* C31: shutdown with immediate=True records the reason and has the
\* shutdown executed when it returns; with immediate=False it records the
\* reason and does nothing else, and the reason stays recorded, so that
\* the next handle_transition executes the shutdown; handle_transition
\* returns True, with the shutdown executed, exactly when a reason was
\* recorded, and returns False otherwise, changing nothing.
C31_ShutdownModes ==
    [][/\ (CallOf("shutdown") /\ scall'.immediate)
            => /\ shutdown_reason' = scall'.reason
               /\ executing_shutdown'
               /\ Quits(effects') = 1
               /\ Chats(effects') = 1
       /\ (CallOf("shutdown") /\ ~scall'.immediate)
            => /\ shutdown_reason' = scall'.reason
               /\ shutdown_reason' # "None"
               /\ UNCHANGED <<executing_shutdown, effects>>
       /\ CallOf("handle_transition")
            => /\ scall'.ret <=> shutdown_reason # "None"
               /\ scall'.ret
                    => /\ executing_shutdown'
                       /\ Quits(effects') = 1
                       /\ Chats(effects') = 1
               /\ ~scall'.ret
                    => UNCHANGED <<shutdown_reason, executing_shutdown,
                                   effects>>
       /\ shutdown_reason # "None" => shutdown_reason' # "None"
      ]_vars

\* handle_transition has returned True and has executed a shutdown that a
\* call with immediate=False had asked for.
C31_Witness ==
    /\ scall.op = "handle_transition"
    /\ scall.ret
    /\ scall.had_reason
    /\ ~scall.was_executing
    /\ Quits(scall.before) = 0
    /\ executing_shutdown
    /\ Quits(effects) = 1

\* C32: over any calls of shutdown and handle_transition, the chat message
\* is sent and the quit timer is set at most once, both when
\* _executing_shutdown is set; once set it stays set, and no call sends a
\* message or sets a timer again.
C32_ShutdownOnce ==
    [][/\ Quits(effects') <= 1
       /\ Chats(effects') <= 1
       /\ executing_shutdown' <=> Quits(effects') = 1
       /\ executing_shutdown
            => /\ executing_shutdown'
               /\ Quits(effects') = Quits(effects)
               /\ Chats(effects') = Chats(effects)
      ]_vars

\* An immediate shutdown for another reason was asked for while the
\* shutdown was executing already: there is still one quit timer.
C32_Witness ==
    /\ scall.op = "shutdown"
    /\ scall.immediate
    /\ scall.was_executing
    /\ Quits(scall.before) = 1
    /\ scall.reason = "RESTARTING"
    /\ scall.before[1] = Chat("serverShuttingDownText")
    /\ Quits(effects) = 1

Launches(eff) == Count(eff, "pushcall")
Imports(eff) == Count(eff, "IMPORT_PLAYLIST")

\* C33: the launch of the server session is pushed only by a firing of the
\* prep timer that finds the account signed in and, when the config has a
\* playlist code, finds the response of the playlist fetch received; the
\* playlist import is requested at most once, and only by a firing that
\* finds the account signed in.
C33_LaunchGating ==
    [][/\ Launches(effects') > Launches(effects)
            => /\ prep_timer
               /\ account_state = "signed_in"
               /\ playlist_code => playlist_fetch_got_response
               /\ playlist_code => Imports(effects) = 1
       /\ Imports(effects') <= 1
       /\ Imports(effects') > Imports(effects)
            => /\ prep_timer
               /\ account_state = "signed_in"
               /\ playlist_code
      ]_vars

\* The launch was pushed for a config with a playlist code, after the
\* playlist was requested once and its response was received.
C33_Witness ==
    /\ playlist_code
    /\ Launches(effects) = 1
    /\ Imports(effects) = 1
    /\ playlist_fetch_got_response
    /\ playlist_name = "playlistName"

\* C34: when the app keeps running, with no error response and no quit,
\* and the account is signed in from some time on, the launch of the
\* server session is pushed at some time; the prep timer is dropped
\* exactly when the launch was pushed, and the launch is pushed once.
C34_LaunchLiveness ==
    /\ (<>[](account_state = "signed_in") /\ [](spc = "running"))
          => <>(Launches(effects) = 1)
    /\ [](Launches(effects) <= 1)
    /\ [](~prep_timer <=> Launches(effects) = 1)

\* The launch was pushed and the timer dropped after the controller had
\* complained about a sign-in that took long.
C34_Witness ==
    /\ Launches(effects) = 1
    /\ ~prep_timer
    /\ Count(effects, "print") > 0
    /\ pushed = 0
    /\ Count(effects, "new_host_session") = 1

\* The four plain types, and the Optional of one of them.
PlainTypes == {"bool", "str", "int", "float"}
OptionalOf(t) == "Optional[" \o t \o "]"

\* The exact type ty is one of the types of a field declared as text.
AllowedFor(text, ty) ==
    \/ text \in PlainTypes /\ ty = text
    \/ \E t \in PlainTypes :
          text = OptionalOf(t) /\ ty \in {t, "NoneType"}

\* The declared type text is one dataclass_assign supports.
SupportedType(text) ==
    text \in PlainTypes \cup {OptionalOf(t) : t \in PlainTypes}

\* The call has gone past the checks of its two arguments.
AssignCalled == dpc \in {"loop", "returned", "raised"}

\* The call has raised at an item of the dict.
RaisedAtItem == dpc = "raised" /\ dkind = "ok"

\* A field holds another value than before only if an item the loop has
\* passed gave it that value and the exact type of the value is allowed
\* for the declared type of the field.
AssignedOnlyAllowed ==
    \A n \in FieldNames :
        dinst[n] # dinst0[n]
            => /\ \E j \in 1..(didx - 1) :
                     dvalues[j] = Item(n, dinst[n])
               /\ AllowedFor(dfields[n].text, dinst[n].type)

C36_PerKeyNotAtomic ==
    (dpc = "loop" \/ RaisedAtItem)
        => /\ \A j \in 1..(didx - 1) :
                 dinst[dvalues[j].key] = dvalues[j].value
           /\ \A n \in FieldNames :
                 (\A j \in 1..(didx - 1) : dvalues[j].key # n)
                     => dinst[n] = dinst0[n]

\* The call has raised at the third of three items, for a float passed for
\* the Optional[int] field o: i and f hold their new values, o holds None
\* as before.
C36_Witness ==
    /\ RaisedAtItem
    /\ Len(dvalues) = 3
    /\ didx = 3
    /\ dvalues[3] = Item("o", Val("float", "1.5"))
    /\ dinst["i"] = Val("int", "1")
    /\ dinst["f"] = Val("float", "1.5")
    /\ dinst0["i"] = Val("int", "0")
    /\ dinst0["f"] = Val("float", "0.0")
    /\ dinst["o"] = dinst0["o"]

=============================================================================
